---- MODULE Spec2Model ----
(***************************************************************************)
(* Socratic Challenger: the DialogueSession aggregate and the              *)
(* ObsidianDialogueRepository that embeds sessions into a note.            *)
(*                                                                         *)
(* A string is modelled as the non-empty sequence of its split('\n')       *)
(* parts.  Every part is a record [k, t, d]: k is the kind of line, t the  *)
(* tuple of texts printed on it, d the JSON payload it carries (a tuple    *)
(* of at most one JSON text).  Lines carry no leading or trailing          *)
(* whitespace, so String.trim() strips blank parts at both ends.           *)
(***************************************************************************)
EXTENDS Integers, Sequences, FiniteSets, TLC

\* ---- bounds ------------------------------------------------------------
\* the clock advances by one between two mutations of a session
MaxTime == 3
MaxQuestions == 2
MaxSaves == 3

\* ---- the closed vocabularies -------------------------------------------
QuestionTypeEnum == {"ASSUMPTION", "PERSPECTIVE", "EXPANSION", "CLARIFICATION", "IMPLICATION"}

IntensityLevelEnum == {"GENTLE", "MODERATE", "CHALLENGING"}

IntensityDefault == "MODERATE"

IntensityDisplayText(v) ==
  CASE v = "GENTLE" -> "Gentle"
    [] v = "MODERATE" -> "Moderate"
    [] v = "CHALLENGING" -> "Challenging"

QuestionTypeDisplayText(v) ==
  CASE v = "ASSUMPTION" -> "Assumption"
    [] v = "PERSPECTIVE" -> "Perspective"
    [] v = "EXPANSION" -> "Expansion"
    [] v = "CLARIFICATION" -> "Clarification"
    [] v = "IMPLICATION" -> "Implication"

\* ---- lines and strings -------------------------------------------------
Line(k, t) == [k |-> k, t |-> t, d |-> << >>]

DataLine(k, json) == [k |-> k, t |-> << >>, d |-> <<json>>]

Blank == Line("blank", << >>)

Sep == Line("sep", << >>)

DIALOGUE_SECTION_MARKER == Line("marker", << >>)

CALLOUT_START == Line("callout", << >>)

LegacyStart == Line("lstart", << >>)

LegacyEnd == Line("lend", << >>)

EmptyStr == <<Blank>>

NL == <<Blank, Blank>>

IsBlank(l) == l.k = "blank"

\* the line contains the text '## Socratic Dialogue'
MarkerKinds == {"marker"}

HasMarker(l) == l.k \in MarkerKinds

\* the line matches /## [^\n]+/ from its first character
H2Kinds == {"marker", "h2", "h2insights"}

\* the line starts with '>'
StartsWithGt(l) == l.k \in {"callout", "cdata", "quote"}

\* the line ends with '}'
EndsWithBrace(l) == l.k \in {"cdata", "ljson"}

Glue(x, y) ==
  IF IsBlank(x) THEN y
  ELSE IF IsBlank(y) THEN x
  ELSE [k |-> "text", t |-> x.t \o y.t, d |-> x.d \o y.d]

\* string concatenation a + b
Cat(a, b) == SubSeq(a, 1, Len(a) - 1) \o <<Glue(a[Len(a)], b[1])>> \o Tail(b)

\* String.prototype.trim
Trim(c) ==
  LET nb == {i \in 1..Len(c) : ~IsBlank(c[i])}
  IN IF nb = {} THEN EmptyStr
     ELSE SubSeq(c, CHOOSE i \in nb : \A j \in nb : i <= j,
                    CHOOSE i \in nb : \A j \in nb : j <= i)

\* String.prototype.substring(0, index of the first character of line i)
Before(c, i) == SubSeq(c, 1, i - 1) \o <<Blank>>

\* String.prototype.substring(index of the '\n' that precedes line j)
FromNewlineBefore(c, j) == <<Blank>> \o SubSeq(c, j, Len(c))

\* String.prototype.indexOf for a text that sits at the start of a line: the
\* first line from i on of one of the kinds, 0 when there is none
FirstFrom(c, i, kinds) ==
  LET S == {j \in i..Len(c) : c[j].k \in kinds}
  IN IF S = {} THEN 0 ELSE CHOOSE j \in S : \A m \in S : j <= m

\* String.prototype.lastIndexOf(text, from): the last line <= i of one of the kinds
LastUpTo(c, i, kinds) ==
  LET S == {j \in 1..i : j <= Len(c) /\ c[j].k \in kinds}
  IN IF S = {} THEN 0 ELSE CHOOSE j \in S : \A m \in S : m <= j

\* ---- Question ----------------------------------------------------------
\* Question.create: a fresh id, the validated type, the creation time
QuestionCreate(id, type, content, t) ==
  [id |-> id, type |-> type, content |-> content, createdAt |-> t]

\* Question.toData
QuestionToData(q) ==
  [id |-> q.id, type |-> q.type, content |-> q.content, createdAt |-> q.createdAt]

\* QuestionType.create / IntensityLevel.create throw outside the enumeration
QuestionTypeCreateThrows(v) == v \notin QuestionTypeEnum

IntensityLevelCreateThrows(v) == v \notin IntensityLevelEnum

\* Question.fromData
QuestionFromData(qd) ==
  [id |-> qd.id, type |-> qd.type, content |-> qd.content, createdAt |-> qd.createdAt]

\* ---- DialogueSession ---------------------------------------------------
\* an optional value is a tuple of at most one element
None == << >>

Some(x) == <<x>>

\* Map.prototype.set as it would be if the map kept every entry it is given
MapSetAppend(m, r) ==
  Append(m, r)

\* Map.prototype.set on the insertion-ordered response map: an existing key
\* keeps its position, a new key goes last
MapSet(m, r) ==
  IF \E i \in 1..Len(m) : m[i].questionId = r.questionId
  THEN [i \in 1..Len(m) |-> IF m[i].questionId = r.questionId THEN r ELSE m[i]]
  ELSE Append(m, r)

\* Map.prototype.has / get
MapHas(m, qid) == \E i \in 1..Len(m) : m[i].questionId = qid

MapGet(m, qid) == m[CHOOSE i \in 1..Len(m) : m[i].questionId = qid]

RECURSIVE MapSetAll(_, _)
MapSetAll(m, rs) ==
  IF rs = << >> THEN m ELSE MapSetAll(MapSet(m, Head(rs)), Tail(rs))

\* DialogueSession.create (the constructor sets updatedAt to createdAt)
DialogueSessionCreate(id, noteId, notePath, noteContext, intensity, t) ==
  [id |-> id, noteId |-> noteId, notePath |-> notePath,
   noteContext |-> noteContext, intensity |-> intensity,
   questions |-> << >>, responses |-> << >>, extractedInsights |-> None,
   createdAt |-> t, updatedAt |-> t]

\* DialogueSession.fromData throws when an enumeration value is invalid
FromDataThrows(data) ==
  \/ IntensityLevelCreateThrows(data.intensity)
  \/ \E i \in 1..Len(data.questions) : QuestionTypeCreateThrows(data.questions[i].type)

\* fromData as it would be if it did not restore the extracted insights
FromDataNoInsights(data, override) ==
  [id |-> data.id, noteId |-> data.noteId, notePath |-> data.notePath,
   noteContext |-> IF override # None THEN override[1]
                   ELSE IF data.noteContext # None THEN data.noteContext[1]
                   ELSE EmptyStr,
   intensity |-> data.intensity,
   questions |-> [i \in 1..Len(data.questions) |-> QuestionFromData(data.questions[i])],
   responses |-> MapSetAll(<< >>, data.responses),
   extractedInsights |-> None,
   createdAt |-> data.createdAt, updatedAt |-> data.updatedAt]

\* DialogueSession.fromData(data, noteContext?)
FromData(data, override) ==
  [id |-> data.id, noteId |-> data.noteId, notePath |-> data.notePath,
   noteContext |-> IF override # None THEN override[1]
                   ELSE IF data.noteContext # None THEN data.noteContext[1]
                   ELSE EmptyStr,
   intensity |-> data.intensity,
   questions |-> [i \in 1..Len(data.questions) |-> QuestionFromData(data.questions[i])],
   responses |-> MapSetAll(<< >>, data.responses),
   extractedInsights |-> data.extractedInsights,
   createdAt |-> data.createdAt, updatedAt |-> data.updatedAt]

\* DialogueSession.addQuestion
AddQuestion(s, q, t) ==
  [s EXCEPT !.questions = Append(@, q), !.updatedAt = t]

\* addQuestions as it would be if it put the new questions in front
AddQuestionsInFront(s, qs, t) ==
  [s EXCEPT !.questions = qs \o @, !.updatedAt = t]

\* DialogueSession.addQuestions
AddQuestions(s, qs, t) ==
  [s EXCEPT !.questions = @ \o qs, !.updatedAt = t]

HasQuestion(s, qid) == \E i \in 1..Len(s.questions) : s.questions[i].id = qid

\* DialogueSession.addResponse, when the question is found
AddResponse(s, qid, content, t) ==
  [s EXCEPT !.responses = MapSet(@, [questionId |-> qid, content |-> content, createdAt |-> t]),
            !.updatedAt = t]

\* DialogueSession.setIntensity
SetIntensity(s, lvl, t) == [s EXCEPT !.intensity = lvl, !.updatedAt = t]

\* DialogueSession.setExtractedInsights
SetExtractedInsights(s, bundle, t) ==
  [s EXCEPT !.extractedInsights = Some(bundle), !.updatedAt = t]

\* toData as it would be if it exported the creation time as updatedAt
ToDataStaleUpdatedAt(s, excludeNoteContext) ==
  [id |-> s.id, noteId |-> s.noteId, notePath |-> s.notePath,
   noteContext |-> IF excludeNoteContext THEN None ELSE Some(s.noteContext),
   questions |-> [i \in 1..Len(s.questions) |-> QuestionToData(s.questions[i])],
   responses |-> s.responses,
   intensity |-> s.intensity,
   extractedInsights |-> s.extractedInsights,
   createdAt |-> s.createdAt, updatedAt |-> s.createdAt]

\* DialogueSession.toData(options)
ToData(s, excludeNoteContext) ==
  [id |-> s.id, noteId |-> s.noteId, notePath |-> s.notePath,
   noteContext |-> IF excludeNoteContext THEN None ELSE Some(s.noteContext),
   questions |-> [i \in 1..Len(s.questions) |-> QuestionToData(s.questions[i])],
   responses |-> s.responses,
   intensity |-> s.intensity,
   extractedInsights |-> s.extractedInsights,
   createdAt |-> s.createdAt, updatedAt |-> s.updatedAt]

RECURSIVE Flat(_)
Flat(ss) == IF ss = << >> THEN << >> ELSE Head(ss) \o Flat(Tail(ss))

\* the lines a text occupies once joined into the transcript
TextLines(c) == IF c = "" THEN <<Blank>> ELSE <<Line("text", <<c>>)>>

\* one question of the transcript
QuestionMarkdown(s, i) ==
  LET q == s.questions[i]
  IN <<Line("qhead", <<ToString(i), QuestionTypeDisplayText(q.type)>>), Blank,
       Line("quote", <<q.content>>), Blank>>
     \o (IF MapHas(s.responses, q.id)
         THEN <<Line("myresp", << >>), Blank>> \o TextLines(MapGet(s.responses, q.id).content) \o <<Blank>>
         ELSE << >>)
     \o <<Sep, Blank>>

\* the insights part of the transcript
InsightsMarkdown(b) ==
  <<Line("h2insights", << >>), Blank>>
  \o (IF Len(b.insights) > 0
      THEN <<Line("h3", <<"Key Insights">>), Blank>>
           \o Flat([i \in 1..Len(b.insights) |->
                <<Line("h4", <<b.insights[i].category, b.insights[i].title>>), Blank>>
                \o TextLines(b.insights[i].description) \o <<Blank>>])
      ELSE << >>)
  \o (IF Len(b.noteTopics) > 0
      THEN <<Line("h3", <<"Suggested Note Topics">>), Blank>>
           \o Flat([i \in 1..Len(b.noteTopics) |->
                <<Line("h4", <<b.noteTopics[i].title>>), Blank>>
                \o TextLines(b.noteTopics[i].description)
                \o (IF Len(b.noteTopics[i].suggestedTags) > 0
                    THEN <<Blank, Line("tags", b.noteTopics[i].suggestedTags)>>
                    ELSE << >>)
                \o <<Blank>>])
      ELSE << >>)
  \o (IF Len(b.unansweredQuestions) > 0
      THEN <<Line("h3", <<"Unanswered Questions">>), Blank>>
           \o [i \in 1..Len(b.unansweredQuestions) |-> Line("bullet", <<b.unansweredQuestions[i]>>)]
           \o <<Blank>>
      ELSE << >>)
  \o (IF Len(b.noteEnhancements) > 0
      THEN <<Line("h3", <<"Suggested Note Enhancements">>), Blank>>
           \o [i \in 1..Len(b.noteEnhancements) |-> Line("bullet", <<b.noteEnhancements[i]>>)]
           \o <<Blank>>
      ELSE << >>)

\* DialogueSession.toMarkdown: lines.join('\n'); the last element is ''
ToMarkdown(s) ==
  <<DIALOGUE_SECTION_MARKER, Blank,
    Line("started", <<ToString(s.createdAt)>>),
    Line("intensity", <<IntensityDisplayText(s.intensity)>>),
    Blank, Sep, Blank>>
  \o Flat([i \in 1..Len(s.questions) |-> QuestionMarkdown(s, i)])
  \o (IF s.extractedInsights # None THEN InsightsMarkdown(s.extractedInsights[1]) ELSE << >>)

\* ---- JSON --------------------------------------------------------------
\* A JSON text is [wf, obj]: wf says whether JSON.parse accepts it, obj is
\* the record it denotes.  Keys holding undefined are left out by
\* JSON.stringify; None stands for them.
JSONStringify(data) == [wf |-> TRUE, obj |-> data]

JSONParseThrows(json) == ~json.wf

JSONParse(json) == json.obj

\* the JSON text contains "id":"<id>": the session's id or a question's id
PayloadHasId(json, id) ==
  \/ json.obj.id = id
  \/ \E i \in 1..Len(json.obj.questions) : json.obj.questions[i].id = id

\* the JSON text contains the characters of id somewhere
PayloadMentions(json, id) ==
  \/ PayloadHasId(json, id)
  \/ \E i \in 1..Len(json.obj.responses) : json.obj.responses[i].questionId = id

\* updateContentWithSession as it would be if it embedded toData() whole
UpdateContentWithFullData(content, session) ==
  LET sessionMarkdown == ToMarkdown(session)
      sessionData == JSONStringify(ToData(session, FALSE))
      dataBlock == <<Blank, CALLOUT_START, DataLine("cdata", sessionData), Blank>>
      sectionIndex == FirstFrom(content, 1, MarkerKinds)
  IN IF sectionIndex = 0
     THEN Cat(Cat(Cat(Trim(content), <<Blank, Blank, Sep, Blank, Blank>>), sessionMarkdown), dataBlock)
     ELSE LET nextHeading == FirstFrom(content, sectionIndex + 1, H2Kinds)
              beforeSection == Before(content, sectionIndex)
              afterNextHeading == IF nextHeading = 0 THEN EmptyStr
                                  ELSE FromNewlineBefore(content, nextHeading)
          IN Cat(Trim(Cat(Cat(Cat(Cat(Cat(Trim(beforeSection), <<Blank, Blank, Blank>>),
                                      sessionMarkdown), dataBlock), NL),
                          Trim(afterNextHeading))),
                 NL)

\* ---- ObsidianDialogueRepository ----------------------------------------
\* updateContentWithSession
UpdateContentWithSession(content, session) ==
  LET sessionMarkdown == ToMarkdown(session)
      sessionData == JSONStringify(ToData(session, TRUE))
      dataBlock == <<Blank, CALLOUT_START, DataLine("cdata", sessionData), Blank>>
      sectionIndex == FirstFrom(content, 1, MarkerKinds)
  IN IF sectionIndex = 0
     THEN Cat(Cat(Cat(Trim(content), <<Blank, Blank, Sep, Blank, Blank>>), sessionMarkdown), dataBlock)
     ELSE LET nextHeading == FirstFrom(content, sectionIndex + 1, H2Kinds)
              beforeSection == Before(content, sectionIndex)
              afterNextHeading == IF nextHeading = 0 THEN EmptyStr
                                  ELSE FromNewlineBefore(content, nextHeading)
          IN Cat(Trim(Cat(Cat(Cat(Cat(Cat(Trim(beforeSection), <<Blank, Blank, Blank>>),
                                      sessionMarkdown), dataBlock), NL),
                          Trim(afterNextHeading))),
                 NL)

\* extractNoteContext
ExtractNoteContext(content) ==
  LET sectionIndex == FirstFrom(content, 1, MarkerKinds)
      separatorIndex == LastUpTo(content, sectionIndex - 1, {"sep"})
  IN IF sectionIndex = 0 THEN content
     ELSE IF separatorIndex > 1 THEN Trim(Before(content, separatorIndex))
     ELSE Trim(Before(content, sectionIndex))

\* the body of each scanning loop: parse the captured text, rebuild the
\* session, skip the block when either throws
ParseBlock(json, noteContext) ==
  IF JSONParseThrows(json) \/ FromDataThrows(JSONParse(json)) THEN << >>
  ELSE <<FromData(JSONParse(json), Some(noteContext))>>

\* where the lazy capture of calloutRegex ends when the payload starts on
\* line i: the first line from i on that ends with '}' and is followed by
\* the end of input or by a line not starting with '>'
CalloutCaptureEnd(c, i) ==
  LET S == {j \in i..Len(c) : EndsWithBrace(c[j]) /\ (j = Len(c) \/ ~StartsWithGt(c[j + 1]))}
  IN IF S = {} THEN 0 ELSE CHOOSE j \in S : \A m \in S : j <= m

\* the callout loop as it would be if a block that fails to parse ended it
RECURSIVE CalloutScan(_, _, _)
CalloutScanAbort(c, pos, noteContext) ==
  LET S == {i \in pos..(Len(c) - 1) :
              c[i].k = "callout" /\ c[i + 1].k = "cdata" /\ CalloutCaptureEnd(c, i + 1) # 0}
  IN IF S = {} THEN << >>
     ELSE LET i == CHOOSE x \in S : \A y \in S : x <= y
              j == CalloutCaptureEnd(c, i + 1)
          IN IF j = i + 1 /\ ParseBlock(c[j].d[1], noteContext) # << >>
             THEN ParseBlock(c[j].d[1], noteContext) \o CalloutScan(c, j + 1, noteContext)
             ELSE << >>

\* while ((match = calloutRegex.exec(content)) !== null)
CalloutScan(c, pos, noteContext) ==
  LET S == {i \in pos..(Len(c) - 1) :
              c[i].k = "callout" /\ c[i + 1].k = "cdata" /\ CalloutCaptureEnd(c, i + 1) # 0}
  IN IF S = {} THEN << >>
     ELSE LET i == CHOOSE x \in S : \A y \in S : x <= y
              j == CalloutCaptureEnd(c, i + 1)
          IN (IF j = i + 1 THEN ParseBlock(c[j].d[1], noteContext) ELSE << >>)
             \o CalloutScan(c, j + 1, noteContext)

\* while ((match = commentRegex.exec(content)) !== null)
RECURSIVE CommentScan(_, _, _)
CommentScan(c, pos, noteContext) ==
  LET i == FirstFrom(c, pos, {"comment"})
  IN IF i = 0 THEN << >>
     ELSE ParseBlock(c[i].d[1], noteContext) \o CommentScan(c, i + 1, noteContext)

\* while ((match = oldLegacyRegex.exec(content)) !== null)
RECURSIVE LegacyScan(_, _, _)
LegacyScan(c, pos, noteContext) ==
  LET i == FirstFrom(c, pos, {"lstart"})
      j == IF i = 0 THEN 0 ELSE FirstFrom(c, i + 2, {"lend"})
  IN IF i = 0 \/ j = 0 THEN << >>
     ELSE LET captured == Trim(SubSeq(c, i + 1, j - 1))
          IN (IF Len(captured) = 1 /\ captured[1].k = "ljson"
              THEN ParseBlock(captured[1].d[1], noteContext) ELSE << >>)
             \o LegacyScan(c, j + 1, noteContext)

\* the scan as it would be if it returned the sessions of all three formats
ParseAllFormats(content, noteContext) ==
  CalloutScan(content, 1, noteContext) \o CommentScan(content, 1, noteContext)
    \o LegacyScan(content, 1, noteContext)

\* parseSessionsFromContent
ParseSessionsFromContent(content, noteContext) ==
  LET callout == CalloutScan(content, 1, noteContext)
      comment == CommentScan(content, 1, noteContext)
      legacy == LegacyScan(content, 1, noteContext)
  IN IF Len(callout) > 0 THEN callout
     ELSE IF Len(comment) > 0 THEN comment
     ELSE legacy

\* getHistory of the note (the file exists)
GetHistory(content) == ParseSessionsFromContent(content, ExtractNoteContext(content))

\* findByNoteId
FindByNoteId(content) ==
  LET sessions == GetHistory(content)
  IN IF Len(sessions) > 0 THEN Some(sessions[1]) ELSE None

\* content.includes(sessionId): ids are printed only inside payloads
Includes(content, id) ==
  \E i \in 1..Len(content) : content[i].d # << >> /\ PayloadMentions(content[i].d[1], id)

\* the line carries a payload whose text contains "id":"<id>"
LineHasId(l, id) == l.d # << >> /\ PayloadHasId(l.d[1], id)

\* content.replace(calloutRegex, ''): the sentinel line, the '> ' line that
\* holds the id, and the newline after it
RECURSIVE RemoveCallout(_, _, _)
RemoveCallout(c, pos, id) ==
  LET S == {i \in pos..(Len(c) - 1) :
              c[i].k = "callout" /\ c[i + 1].k = "cdata" /\ LineHasId(c[i + 1], id)}
  IN IF S = {} THEN c
     ELSE LET i == CHOOSE x \in S : \A y \in S : x <= y
              rest == IF i + 1 < Len(c) THEN SubSeq(c, i + 2, Len(c)) ELSE EmptyStr
          IN RemoveCallout(Cat(Before(c, i), rest), i, id)

\* content.replace(commentRegex, ''): the comment is cut out of its line
RemoveComment(c, id) ==
  [i \in 1..Len(c) |-> IF c[i].k = "comment" /\ LineHasId(c[i], id) THEN Blank ELSE c[i]]

\* content.replace(legacyRegex, ''): from a START line, lazily to the first
\* "id":"<id>" after it, then lazily to the first END line after that
RECURSIVE RemoveLegacy(_, _, _)
RemoveLegacy(c, pos, id) ==
  LET EndAfter(i) == LET M == {m \in (i + 1)..Len(c) : LineHasId(c[m], id)}
                     IN IF M = {} THEN 0
                        ELSE FirstFrom(c, (CHOOSE m \in M : \A x \in M : m <= x) + 1, {"lend"})
      S == {i \in pos..Len(c) : c[i].k = "lstart" /\ EndAfter(i) # 0}
  IN IF S = {} THEN c
     ELSE LET i == CHOOSE x \in S : \A y \in S : x <= y
              j == EndAfter(i)
          IN RemoveLegacy(SubSeq(c, 1, i - 1) \o <<Blank>> \o SubSeq(c, j + 1, Len(c)), i + 1, id)

\* the replacement as it would be if sectionRegex started at the heading
RemoveSectionFromHeading(c) ==
  LET m == FirstFrom(c, 1, MarkerKinds)
  IN IF m = 0 THEN c ELSE Before(c, m)

\* updatedContent.replace(sectionRegex, ''): the first '---' that only
\* newlines separate from the marker, with the newlines before it, to the end
RemoveSection(c) ==
  LET S == {k \in 1..Len(c) : c[k].k = "sep" /\
              \E m \in (k + 1)..Len(c) : HasMarker(c[m]) /\ \A x \in (k + 1)..(m - 1) : IsBlank(c[x])}
  IN IF S = {} THEN c
     ELSE Before(c, CHOOSE k \in S : \A y \in S : k <= y)

\* the content delete(sessionId) writes to a file that includes the id
DeleteFromContent(content, sessionId) ==
  LET updatedContent == RemoveLegacy(RemoveComment(RemoveCallout(content, 1, sessionId), sessionId), 1, sessionId)
      hasCallout == \E i \in 1..Len(updatedContent) : updatedContent[i].k = "callout"
      hasComment == \E i \in 1..Len(updatedContent) : updatedContent[i].k = "comment"
      hasLegacy == \E i \in 1..Len(updatedContent) : updatedContent[i].k = "lstart"
  IN IF ~hasCallout /\ ~hasComment /\ ~hasLegacy
     THEN Cat(Trim(RemoveSection(updatedContent)), NL)
     ELSE updatedContent

\* ---- the inputs the model draws from ------------------------------------
Handles == {1, 2}

Savers == {1, 2}

\* DialogueSession.generateId never repeats: the id of the session caller h creates
SessionId(h) == "s" \o ToString(h)

\* Question.generateId never repeats: the n-th generated question
QuestionId(n) == "q" \o ToString(n)

StoredIds == {"s8", "s9"}

ResponseContents == {"r1", "r2"}

\* question ids addResponse is called with: generated ones and unknown ones
ResponseTargets == {QuestionId(n) : n \in 1..MaxQuestions} \cup {"k1", "qx"}

NotePath == "note.md"

\* the bundles ExtractInsights hands to setExtractedInsights at time t
FullBundle(t) ==
  [insights |-> <<[title |-> "i1", description |-> "d1", category |-> "discovery"]>>,
   noteTopics |-> <<[title |-> "n1", description |-> "d2", suggestedTags |-> <<"tag">>]>>,
   unansweredQuestions |-> <<"u1">>,
   noteEnhancements |-> <<"e1">>,
   extractedAt |-> t]

TopicBundle(t) ==
  [insights |-> << >>,
   noteTopics |-> <<[title |-> "n1", description |-> "d2", suggestedTags |-> << >>]>>,
   unansweredQuestions |-> << >>,
   noteEnhancements |-> << >>,
   extractedAt |-> t]

\* notes that hold no dialogue yet
T1 == Line("text", <<"note">>)

T2 == Line("text", <<"more">>)

PlainDocs ==
  { EmptyStr,
    <<T1, Blank>>,
    <<Blank, T1, Blank, Line("h2", <<"Refs">>), T2>> }

\* ---- the state ----------------------------------------------------------
VARIABLES
  doc,       \* the content of the note file in the vault
  session,   \* the DialogueSession object each caller holds, None before it has one
  now,       \* the clock read by new Date() and Date.now()
  nextQ,     \* the number of question ids generated so far
  saves,     \* the number of save calls started so far
  pc,        \* where each save call stands: "idle" or "write" (read done, modify pending)
  pending,   \* the updatedContent each save call computed from what it read
  race,      \* the last save call that wrote, and whether two calls overlapped
  err,       \* the error of the last operation, "none" when it succeeded
  out,       \* what the last orchestrator call gave back, and what it called
  modal,     \* isLoading of the dialogue modal and the execute calls it awaits
  plugin     \* the AI settings of the plugin and the API key each provider holds

vars == <<doc, session, now, nextQ, saves, pc, pending, race, err, out, modal, plugin>>

NoRace == [lastWriter |-> 0, overlapped |-> FALSE]

\* the fields of the orchestrators' output records, all empty
NoResult ==
  [questions |-> << >>, insights |-> << >>, noteTopics |-> << >>,
   unansweredQuestions |-> << >>, noteEnhancements |-> << >>,
   rawResponse |-> << >>, error |-> << >>, session |-> << >>]

\* no orchestrator has been called yet
NoOutput == [op |-> "none", thrown |-> FALSE, result |-> NoResult, llmCalls |-> 0]

\* the modal as its constructor leaves it: not loading, awaiting nothing
ModalClosed == [isLoading |-> FALSE, inFlight |-> << >>]

\* the provider types of the model and the API keys typed into the settings
ProviderTypes == {"claude", "openai"}

ApiKeys == {"", "k1"}

\* the plugin after onload with no stored settings: DEFAULT_SETTINGS, every
\* registered provider with its initial empty key
PluginLoaded ==
  [settings |-> [provider |-> "claude", apiKeys |-> [t \in ProviderTypes |-> ""]],
   providers |-> [t \in ProviderTypes |-> ""]]

InitWith(docs) ==
  /\ doc \in docs
  /\ session = [h \in Handles |-> None]
  /\ now = 0
  /\ nextQ = 0
  /\ saves = 0
  /\ pc = [p \in Savers |-> "idle"]
  /\ pending = [p \in Savers |-> EmptyStr]
  /\ race = NoRace
  /\ err = "none"
  /\ out = NoOutput
  /\ modal = ModalClosed
  /\ plugin = PluginLoaded

\* callers are numbered in the order in which they obtain their session
InOrder(h) == \A g \in Handles : g < h => session[g] # None

\* the modal creates a session for the open note with the selected intensity
Create(h, intensity) ==
  /\ session[h] = None
  /\ InOrder(h)
  /\ session' = [session EXCEPT ![h] =
       Some(DialogueSessionCreate(SessionId(h), NotePath, NotePath, doc, intensity, now))]
  /\ err' = "none"
  /\ UNCHANGED <<doc, now, nextQ, saves, pc, pending, race, out, modal, plugin>>

\* the modal loads the previous dialogue of the note
Load(h) ==
  /\ session[h] = None
  /\ InOrder(h)
  /\ FindByNoteId(doc) # None
  /\ session' = [session EXCEPT ![h] = FindByNoteId(doc)]
  /\ err' = "none"
  /\ UNCHANGED <<doc, now, nextQ, saves, pc, pending, race, out, modal, plugin>>

\* DialogueSession.fromData on a record handed in by the caller
Restore(h, data) ==
  /\ session[h] = None
  /\ InOrder(h)
  /\ ~FromDataThrows(data)
  /\ session' = [session EXCEPT ![h] = Some(FromData(data, None))]
  /\ err' = "none"
  /\ UNCHANGED <<doc, now, nextQ, saves, pc, pending, race, out, modal, plugin>>

DoAddQuestion(h, type, content) ==
  /\ session[h] # None
  /\ now < MaxTime
  /\ nextQ < MaxQuestions
  /\ now' = now + 1
  /\ nextQ' = nextQ + 1
  /\ session' = [session EXCEPT ![h] =
       Some(AddQuestion(@[1], QuestionCreate(QuestionId(nextQ'), type, content, now'), now'))]
  /\ err' = "none"
  /\ UNCHANGED <<doc, saves, pc, pending, race, out, modal, plugin>>

\* addQuestions with n freshly created questions of one type
DoAddQuestions(h, n, type, content) ==
  /\ session[h] # None
  /\ now < MaxTime
  /\ nextQ + n <= MaxQuestions
  /\ now' = now + 1
  /\ nextQ' = nextQ + n
  /\ session' = [session EXCEPT ![h] =
       Some(AddQuestions(@[1],
              [i \in 1..n |-> QuestionCreate(QuestionId(nextQ + i), type, content, now')], now'))]
  /\ err' = "none"
  /\ UNCHANGED <<doc, saves, pc, pending, race, out, modal, plugin>>

\* addResponse as it would be if it stored the response before looking the
\* question up
DoAddResponseLateCheck(h, qid, content) ==
  /\ session[h] # None
  /\ now < MaxTime
  /\ now' = now + 1
  /\ session' = [session EXCEPT ![h] = Some(AddResponse(@[1], qid, content, now'))]
  /\ err' = IF HasQuestion(session[h][1], qid) THEN "none" ELSE "QuestionNotFound"
  /\ UNCHANGED <<doc, nextQ, saves, pc, pending, race, out, modal, plugin>>

\* addResponse: throws before it touches the session when the id is unknown
DoAddResponse(h, qid, content) ==
  /\ session[h] # None
  /\ IF HasQuestion(session[h][1], qid)
     THEN /\ now < MaxTime
          /\ now' = now + 1
          /\ session' = [session EXCEPT ![h] = Some(AddResponse(@[1], qid, content, now'))]
          /\ err' = "none"
     ELSE /\ err' = "QuestionNotFound"
          /\ UNCHANGED <<session, now>>
  /\ UNCHANGED <<doc, nextQ, saves, pc, pending, race, out, modal, plugin>>

DoSetIntensity(h, lvl) ==
  /\ session[h] # None
  /\ now < MaxTime
  /\ now' = now + 1
  /\ session' = [session EXCEPT ![h] = Some(SetIntensity(@[1], lvl, now'))]
  /\ err' = "none"
  /\ UNCHANGED <<doc, nextQ, saves, pc, pending, race, out, modal, plugin>>

DoSetExtractedInsights(h, full) ==
  /\ session[h] # None
  /\ now < MaxTime
  /\ now' = now + 1
  /\ session' = [session EXCEPT ![h] =
       Some(SetExtractedInsights(@[1], IF full THEN FullBundle(now') ELSE TopicBundle(now'), now'))]
  /\ err' = "none"
  /\ UNCHANGED <<doc, nextQ, saves, pc, pending, race, out, modal, plugin>>

\* save(session) run to completion: read the file, compute, vault.modify
Save(h) ==
  /\ session[h] # None
  /\ \A p \in Savers : pc[p] = "idle"
  /\ saves < MaxSaves
  /\ saves' = saves + 1
  /\ doc' = UpdateContentWithSession(doc, session[h][1])
  /\ err' = "none"
  /\ UNCHANGED <<session, now, nextQ, pc, pending, race, out, modal, plugin>>

\* saveToFile up to its second await: read the file, compute the new content
SaveRead(p, h) ==
  /\ pc[p] = "idle"
  /\ session[h] # None
  /\ saves < MaxSaves
  /\ saves' = saves + 1
  /\ pending' = [pending EXCEPT ![p] = UpdateContentWithSession(doc, session[h][1])]
  /\ pc' = [pc EXCEPT ![p] = "write"]
  /\ race' = [race EXCEPT !.overlapped = \E o \in Savers : o # p /\ pc[o] = "write"]
  /\ err' = "none"
  /\ UNCHANGED <<doc, session, now, nextQ, out, modal, plugin>>

\* the write as it would be if it added to the file instead of replacing it
SaveWriteAppend(p) ==
  /\ pc[p] = "write"
  /\ doc' = Cat(doc, pending[p])
  /\ pc' = [pc EXCEPT ![p] = "idle"]
  /\ race' = [race EXCEPT !.lastWriter = p]
  /\ err' = "none"
  /\ UNCHANGED <<session, now, nextQ, saves, pending, out, modal, plugin>>

\* saveToFile from its second await: vault.modify
SaveWrite(p) ==
  /\ pc[p] = "write"
  /\ doc' = pending[p]
  /\ pc' = [pc EXCEPT ![p] = "idle"]
  /\ race' = [race EXCEPT !.lastWriter = p]
  /\ err' = "none"
  /\ UNCHANGED <<session, now, nextQ, saves, pending, out, modal, plugin>>

\* delete(sessionId): the note is the vault's only markdown file
Delete(sessionId) ==
  /\ \A p \in Savers : pc[p] = "idle"
  /\ Includes(doc, sessionId)
  /\ doc' = DeleteFromContent(doc, sessionId)
  /\ race' = NoRace
  /\ err' = "none"
  /\ UNCHANGED <<session, now, nextQ, saves, pc, pending, out, modal, plugin>>

\* the ids of the questions the caller's session shows
ShownIds(h) ==
  IF session[h] = None THEN {}
  ELSE {session[h][1].questions[i].id : i \in 1..Len(session[h][1].questions)}

\* ---- the repository driven by one caller that saves sequentially -------
Init == InitWith(PlainDocs)

Next ==
  \/ \E i \in {IntensityDefault, "GENTLE"} : Create(1, i)
  \/ DoAddQuestions(1, 1, "EXPANSION", "What else?")
  \/ \E qid \in ShownIds(1), c \in ResponseContents : DoAddResponse(1, qid, c)
  \/ \E full \in BOOLEAN : DoSetExtractedInsights(1, full)
  \/ Save(1)
  \/ Delete(SessionId(1))

Spec == Init /\ [][Next]_vars

\* ---- the session entity driven by one caller ----------------------------
\* records as toData writes them and JSON.parse hands them to fromData; the
\* last one answers a question its list does not hold
StoredData(id, qid, rid, t, withContext) ==
  [id |-> id, noteId |-> NotePath, notePath |-> NotePath,
   noteContext |-> IF withContext THEN Some(<<T1>>) ELSE None,
   questions |-> <<[id |-> qid, type |-> "ASSUMPTION", content |-> "Why?", createdAt |-> t]>>,
   responses |-> <<[questionId |-> rid, content |-> "r1", createdAt |-> t]>>,
   intensity |-> "GENTLE",
   extractedInsights |-> None,
   createdAt |-> t, updatedAt |-> t]

RestoreInputs ==
  { StoredData("s8", "k1", "k1", 0 - 2, TRUE),
    StoredData("s8", "k1", "k1", 0 - 2, FALSE),
    StoredData("s9", "k1", "k9", 0 - 1, TRUE) }

InitSession == InitWith({<<T1, Blank>>})

NextSession ==
  \/ \E i \in IntensityLevelEnum : Create(1, i)
  \/ \E data \in RestoreInputs : Restore(1, data)
  \/ \E type \in {"ASSUMPTION", "IMPLICATION"} : DoAddQuestion(1, type, "Why?")
  \/ \E n \in 0..2 : DoAddQuestions(1, n, "EXPANSION", "What else?")
  \/ \E qid \in ResponseTargets, c \in ResponseContents : DoAddResponse(1, qid, c)
  \/ \E lvl \in IntensityLevelEnum : DoSetIntensity(1, lvl)
  \/ \E full \in BOOLEAN : DoSetExtractedInsights(1, full)

SpecSession == InitSession /\ [][NextSession]_vars

\* ---- two save calls whose reads and writes interleave -------------------
InitRace == InitWith({<<T1, Blank>>})

NextRace ==
  \/ \E h \in Handles : Create(h, IntensityDefault)
  \/ \E h \in Handles : DoAddQuestions(h, 1, "EXPANSION", "What else?")
  \/ \E h \in Handles : DoSetExtractedInsights(h, FALSE)
  \/ \E p \in Savers, h \in Handles : SaveRead(p, h)
  \/ \E p \in Savers : SaveWrite(p)

SpecRace == InitRace /\ [][NextRace]_vars

\* ---- notes that earlier versions of the plugin wrote ---------------------
\* the three wrappings of a payload
CalloutBlock(json) == <<Blank, CALLOUT_START, DataLine("cdata", json), Blank>>

CommentBlock(json) == <<Blank, DataLine("comment", json), Blank>>

LegacyBlock(json) == <<Blank, LegacyStart, DataLine("ljson", json), LegacyEnd, Blank>>

Stored8 == JSONStringify(StoredData("s8", "k1", "k1", 0 - 2, TRUE))

Stored9 == JSONStringify(StoredData("s9", "k2", "k2", 0 - 1, TRUE))

\* a payload JSON.parse rejects
Broken9 == [wf |-> FALSE, obj |-> StoredData("s9", "k2", "k2", 0 - 1, TRUE)]

\* a payload that parses but names an intensity level that does not exist
BadEnum9 == JSONStringify([StoredData("s9", "k2", "k2", 0 - 1, TRUE) EXCEPT !.intensity = "EXTREME"])

\* the note, the separator, the transcript heading, then the given parts
Dialogue(parts) ==
  <<T1, Blank, Sep, Blank, DIALOGUE_SECTION_MARKER, Blank, Line("started", <<"-2">>), Blank>> \o parts

\* a '## ' heading inside the section, from a response or from the user: it
\* is what makes a later save keep the block of an earlier one
Heading == <<Line("h2", <<"Idea">>), Blank>>

StoredDocs ==
  { Dialogue(Tail(LegacyBlock(Stored8))),
    Dialogue(Tail(LegacyBlock(Stored8)) \o Heading \o Tail(LegacyBlock(Stored9))),
    Dialogue(Tail(CommentBlock(Stored8)) \o Heading \o Tail(CommentBlock(Stored9))),
    Dialogue(Tail(CalloutBlock(Stored8)) \o Heading \o Tail(CalloutBlock(Stored9))),
    Dialogue(Tail(CommentBlock(Stored9)) \o Heading \o Tail(LegacyBlock(Stored8))),
    Dialogue(Tail(CalloutBlock(Broken9)) \o Heading \o Tail(CommentBlock(Stored8))
             \o Tail(LegacyBlock(Stored9))),
    Dialogue(Tail(CalloutBlock(Broken9)) \o Heading \o Tail(CalloutBlock(Stored8))
             \o Heading \o Tail(CalloutBlock(BadEnum9))),
    Dialogue(Tail(CommentBlock(Stored8)) \o Heading \o Tail(CommentBlock(BadEnum9))),
    Dialogue(Tail(LegacyBlock(Broken9)) \o Heading \o Tail(LegacyBlock(Stored8))) }

InitStored == InitWith(StoredDocs)

NextStored ==
  \/ \E h \in Handles : Load(h)
  \/ \E h \in Handles : \E qid \in ShownIds(h) : DoAddResponse(h, qid, "r2")
  \/ \E h \in Handles : DoSetIntensity(h, "CHALLENGING")
  \/ \E h \in Handles : Save(h)
  \/ \E sid \in StoredIds : Delete(sid)

SpecStored == InitStored /\ [][NextStored]_vars

\* ---- the queries of DialogueSession ---------------------------------------
\* getHistory of the session: one entry per question, the response content or
\* null, here the empty tuple
SessionGetHistory(s) ==
  [i \in 1..Len(s.questions) |->
     [question |-> s.questions[i],
      response |-> IF MapHas(s.responses, s.questions[i].id)
                   THEN Some(MapGet(s.responses, s.questions[i].id).content) ELSE None,
      responseCreatedAt |-> IF MapHas(s.responses, s.questions[i].id)
                            THEN Some(MapGet(s.responses, s.questions[i].id).createdAt) ELSE None]]

\* getUnansweredQuestions as it would be without its filter
GetUnansweredQuestionsUnfiltered(s) == s.questions

\* getUnansweredQuestions
GetUnansweredQuestions(s) ==
  SelectSeq(s.questions, LAMBDA q : ~MapHas(s.responses, q.id))

\* getAnsweredQuestions
GetAnsweredQuestions(s) ==
  SelectSeq(s.questions, LAMBDA q : MapHas(s.responses, q.id))

\* getLastExchange as it would be if it took the response recorded last
GetLastExchangeByTime(s) ==
  LET answeredQuestions == GetAnsweredQuestions(s)
  IN IF Len(answeredQuestions) = 0 THEN None
     ELSE LET lastId == s.responses[Len(s.responses)].questionId
              lastQuestion == answeredQuestions[CHOOSE i \in 1..Len(answeredQuestions) :
                                                  answeredQuestions[i].id = lastId]
          IN Some([question |-> lastQuestion, response |-> MapGet(s.responses, lastId).content])

\* getLastExchange
GetLastExchange(s) ==
  LET answeredQuestions == GetAnsweredQuestions(s)
  IN IF Len(answeredQuestions) = 0 THEN None
     ELSE LET lastQuestion == answeredQuestions[Len(answeredQuestions)]
          IN IF ~MapHas(s.responses, lastQuestion.id) THEN None
             ELSE Some([question |-> lastQuestion,
                        response |-> MapGet(s.responses, lastQuestion.id).content])

\* ---- the orchestrators ----------------------------------------------------
\* the error messages of the orchestrators' results
ErrEmptyNote == "The note content is empty."

ErrNoTypes == "Select at least one question type."

ErrLLMDefault == "LLM request failed."

ErrGenerateFailed == "Failed to generate questions."

ErrNeedsAnswer == "Answer at least one question first."

ErrContinueFailed == "Failed to generate follow-up questions."

ErrExtractNeedsAnswer == "At least one question must be answered to extract insights."

ErrExtractFailed == "Failed to extract insights. The responses may be too short."

ErrEmptyResponse == "The response is empty."

ErrNoteNotFound == "Note not found: note.md"

ErrQuestionNotFound(qid) == "Question not found: " \o qid

\* String.prototype.trim() of a one-line text
RECURSIVE StringTrim(_)
StringTrim(s) ==
  IF Len(s) = 0 THEN s
  ELSE IF SubSeq(s, 1, 1) = " " THEN StringTrim(SubSeq(s, 2, Len(s)))
  ELSE IF SubSeq(s, Len(s), Len(s)) = " " THEN StringTrim(SubSeq(s, 1, Len(s) - 1))
  ELSE s

\* a line of an LLM answer: the list marker and icon it starts with, the text
\* after them, whether it contains '?', and the type whose icon or keyword
\* it contains ("none" when it contains none)
TextLine(prefix, body, q, hint) == [prefix |-> prefix, body |-> body, q |-> q, hint |-> hint]

\* what JSON.parse makes of an answer that has none of the expected keys
NoPayload ==
  [questions |-> None, insights |-> << >>, noteTopics |-> << >>,
   unansweredQuestions |-> << >>, noteEnhancements |-> << >>]

\* the text of an LLM answer: whether its JSON part parses and to what, and
\* its split('\n') lines
LLMText(wf, obj, lines) == [json |-> [wf |-> wf, obj |-> obj], lines |-> lines]

\* LLMResponse
LLMResponse(success, content, error) == [success |-> success, content |-> content, error |-> error]

\* the fallback of parseQuestionsFromResponse: a line that is not empty, has
\* a '?' and is longer than 10 characters once cleaned becomes a question
FallbackQuestions(lines, default, detected, first, t) ==
  LET picked == SelectSeq(lines, LAMBDA l : (l.prefix \o l.body) # "" /\ l.q /\ Len(l.body) > 10)
  IN [i \in 1..Len(picked) |->
        QuestionCreate(QuestionId(first + i),
                       IF picked[i].hint \in detected THEN picked[i].hint ELSE default,
                       picked[i].body, t)]

\* parseQuestionsFromResponse as it would be if it only scanned the lines
ParseQuestionsByLines(text, default, detected, first, t) ==
  FallbackQuestions(text.lines, default, detected, first, t)

\* the try block of parseQuestionsFromResponse, the fallback when it throws
ParseQuestionsFromResponse(text, default, detected, first, t) ==
  LET parsed == text.json.obj
  IN IF /\ text.json.wf
        /\ parsed.questions # None
        /\ \A i \in 1..Len(parsed.questions[1]) : ~QuestionTypeCreateThrows(parsed.questions[1][i].type)
     THEN [i \in 1..Len(parsed.questions[1]) |->
             QuestionCreate(QuestionId(first + i), parsed.questions[1][i].type,
                            parsed.questions[1][i].content, t)]
     ELSE FallbackQuestions(text.lines, default, detected, first, t)

\* parseQuestionsFromResponse of GenerateQuestions
GenerateParseQuestions(text, first, t) ==
  ParseQuestionsFromResponse(text, "ASSUMPTION", QuestionTypeEnum, first, t)

\* parseQuestionsFromResponse of ContinueDialogue
ContinueParseQuestions(text, first, t) ==
  ParseQuestionsFromResponse(text, "EXPANSION", {"ASSUMPTION", "IMPLICATION"}, first, t)

\* parseInsightsFromResponse
ParseInsightsFromResponse(text) ==
  LET parsed == text.json.obj
  IN IF ~text.json.wf
     THEN [insights |-> << >>, noteTopics |-> << >>,
           unansweredQuestions |-> << >>, noteEnhancements |-> << >>]
     ELSE [insights |-> [i \in 1..Len(parsed.insights) |->
                           [title |-> parsed.insights[i].title,
                            description |-> parsed.insights[i].description,
                            category |-> IF parsed.insights[i].category = "" THEN "discovery"
                                         ELSE parsed.insights[i].category]],
           noteTopics |-> parsed.noteTopics,
           unansweredQuestions |-> parsed.unansweredQuestions,
           noteEnhancements |-> parsed.noteEnhancements]

\* a returned output record
Returned(op, result, llmCalls) ==
  [op |-> op, thrown |-> FALSE, result |-> result, llmCalls |-> llmCalls]

\* execute rejected: no output record
Thrown(op, llmCalls) ==
  [op |-> op, thrown |-> TRUE, result |-> NoResult, llmCalls |-> llmCalls]

\* buildUserPrompt and buildContinuePrompt call QuestionType.create on every
\* requested type
PromptThrows(questionTypes) ==
  \E i \in 1..Len(questionTypes) : QuestionTypeCreateThrows(questionTypes[i])

\* the part of GenerateQuestions and ContinueDialogue after the prompt is built
QuestionsFromLLM(op, llm, questions, failed) ==
  IF llm.thrown THEN Thrown(op, 1)
  ELSE IF ~llm.response.success
  THEN Returned(op, [NoResult EXCEPT
                       !.error = IF llm.response.error # None THEN llm.response.error
                                 ELSE Some(ErrLLMDefault),
                       !.rawResponse = Some(llm.response.content)], 1)
  ELSE IF Len(questions) = 0
  THEN Returned(op, [NoResult EXCEPT !.error = Some(failed),
                                     !.rawResponse = Some(llm.response.content)], 1)
  ELSE Returned(op, [NoResult EXCEPT !.questions = questions,
                                     !.rawResponse = Some(llm.response.content)], 1)

\* GenerateQuestions as it would be if it returned whatever the parser
\* found without looking at its length
GenerateQuestionsOutputUnchecked(input, llm, first, t) ==
  IF Trim(input.noteContent) = EmptyStr
  THEN Returned("GenerateQuestions", [NoResult EXCEPT !.error = Some(ErrEmptyNote)], 0)
  ELSE IF Len(input.questionTypes) = 0
  THEN Returned("GenerateQuestions", [NoResult EXCEPT !.error = Some(ErrNoTypes)], 0)
  ELSE IF PromptThrows(input.questionTypes) THEN Thrown("GenerateQuestions", 0)
  ELSE IF llm.thrown \/ ~llm.response.success
  THEN QuestionsFromLLM("GenerateQuestions", llm, << >>, ErrGenerateFailed)
  ELSE Returned("GenerateQuestions",
                [NoResult EXCEPT !.questions = GenerateParseQuestions(llm.response.content, first, t),
                                 !.rawResponse = Some(llm.response.content)], 1)

\* GenerateQuestionsUseCase.execute: what the call gives back
GenerateQuestionsOutput(input, llm, first, t) ==
  IF Trim(input.noteContent) = EmptyStr
  THEN Returned("GenerateQuestions", [NoResult EXCEPT !.error = Some(ErrEmptyNote)], 0)
  ELSE IF Len(input.questionTypes) = 0
  THEN Returned("GenerateQuestions", [NoResult EXCEPT !.error = Some(ErrNoTypes)], 0)
  ELSE IF PromptThrows(input.questionTypes) THEN Thrown("GenerateQuestions", 0)
  ELSE QuestionsFromLLM("GenerateQuestions", llm,
                        IF ~llm.thrown /\ llm.response.success
                        THEN GenerateParseQuestions(llm.response.content, first, t) ELSE << >>,
                        ErrGenerateFailed)

\* ContinueDialogue as it would be if it asked the LLM before it looked at
\* the session
ContinueDialogueOutputNoCheck(input, llm, first, t) ==
  IF input.questionTypes # None /\ PromptThrows(input.questionTypes[1])
  THEN Thrown("ContinueDialogue", 0)
  ELSE LET o == QuestionsFromLLM("ContinueDialogue", llm,
                                 IF ~llm.thrown /\ llm.response.success
                                 THEN ContinueParseQuestions(llm.response.content, first, t) ELSE << >>,
                                 ErrContinueFailed)
       IN IF ~o.thrown /\ Len(GetAnsweredQuestions(input.session)) = 0
          THEN Returned("ContinueDialogue", [NoResult EXCEPT !.error = Some(ErrNeedsAnswer)], 1)
          ELSE o

\* ContinueDialogueUseCase.execute: what the call gives back
ContinueDialogueOutput(input, llm, first, t) ==
  IF Len(GetAnsweredQuestions(input.session)) = 0
  THEN Returned("ContinueDialogue", [NoResult EXCEPT !.error = Some(ErrNeedsAnswer)], 0)
  ELSE IF input.questionTypes # None /\ PromptThrows(input.questionTypes[1])
  THEN Thrown("ContinueDialogue", 0)
  ELSE QuestionsFromLLM("ContinueDialogue", llm,
                        IF ~llm.thrown /\ llm.response.success
                        THEN ContinueParseQuestions(llm.response.content, first, t) ELSE << >>,
                        ErrContinueFailed)

\* the four lists of an ExtractInsights output
WithLists(result, lists) ==
  [result EXCEPT !.insights = lists.insights, !.noteTopics = lists.noteTopics,
                 !.unansweredQuestions = lists.unansweredQuestions,
                 !.noteEnhancements = lists.noteEnhancements]

\* ExtractInsights as it would be if it wanted all four lists to be filled
ExtractInsightsOutputStrict(input, llm) ==
  IF Len(GetAnsweredQuestions(input.session)) = 0
  THEN Returned("ExtractInsights", [NoResult EXCEPT !.error = Some(ErrExtractNeedsAnswer)], 0)
  ELSE IF llm.thrown THEN Thrown("ExtractInsights", 1)
  ELSE IF ~llm.response.success
  THEN Returned("ExtractInsights",
                [NoResult EXCEPT
                   !.error = IF llm.response.error # None THEN llm.response.error
                             ELSE Some(ErrLLMDefault),
                   !.rawResponse = Some(llm.response.content)], 1)
  ELSE LET result == ParseInsightsFromResponse(llm.response.content)
       IN IF \/ Len(result.insights) = 0 \/ Len(result.noteTopics) = 0
             \/ Len(result.unansweredQuestions) = 0 \/ Len(result.noteEnhancements) = 0
          THEN Returned("ExtractInsights",
                        [WithLists(NoResult, result) EXCEPT
                           !.error = Some(ErrExtractFailed),
                           !.rawResponse = Some(llm.response.content)], 1)
          ELSE Returned("ExtractInsights",
                        [WithLists(NoResult, result) EXCEPT
                           !.rawResponse = Some(llm.response.content)], 1)

\* ExtractInsightsUseCase.execute: what the call gives back
ExtractInsightsOutput(input, llm) ==
  IF Len(GetAnsweredQuestions(input.session)) = 0
  THEN Returned("ExtractInsights", [NoResult EXCEPT !.error = Some(ErrExtractNeedsAnswer)], 0)
  ELSE IF llm.thrown THEN Thrown("ExtractInsights", 1)
  ELSE IF ~llm.response.success
  THEN Returned("ExtractInsights",
                [NoResult EXCEPT
                   !.error = IF llm.response.error # None THEN llm.response.error
                             ELSE Some(ErrLLMDefault),
                   !.rawResponse = Some(llm.response.content)], 1)
  ELSE LET result == ParseInsightsFromResponse(llm.response.content)
       IN IF Len(result.insights) = 0 /\ Len(result.noteTopics) = 0
          THEN Returned("ExtractInsights",
                        [WithLists(NoResult, result) EXCEPT
                           !.error = Some(ErrExtractFailed),
                           !.rawResponse = Some(llm.response.content)], 1)
          ELSE Returned("ExtractInsights",
                        [WithLists(NoResult, result) EXCEPT
                           !.rawResponse = Some(llm.response.content)], 1)

\* ---- the inputs of the orchestrators ----------------------------------------
\* a JSON answer with two questions
GoodQuestions ==
  LLMText(TRUE,
          [NoPayload EXCEPT !.questions =
             Some(<<[type |-> "PERSPECTIVE", content |-> "Who disagrees?"],
                    [type |-> "IMPLICATION", content |-> "What follows?"]>>)],
          <<TextLine("", "{\"questions\": [", FALSE, "none"),
            TextLine("", "{\"type\": \"PERSPECTIVE\", \"content\": \"Who disagrees?\"},", TRUE, "none"),
            TextLine("", "{\"type\": \"IMPLICATION\", \"content\": \"What follows?\"}", TRUE, "none"),
            TextLine("", "]}", FALSE, "none")>>)

\* a JSON answer whose questions array is empty
EmptyQuestions ==
  LLMText(TRUE, [NoPayload EXCEPT !.questions = Some(<< >>)],
          <<TextLine("", "{\"questions\": []}", FALSE, "none")>>)

\* a JSON answer with a question of a type that does not exist
BogusType ==
  LLMText(TRUE,
          [NoPayload EXCEPT !.questions = Some(<<[type |-> "BOGUS", content |-> "Is it so?"]>>)],
          <<TextLine("", "{\"questions\": [", FALSE, "none"),
            TextLine("", "{\"type\": \"BOGUS\", \"content\": \"Is it so?\"}", TRUE, "none"),
            TextLine("", "]}", FALSE, "none")>>)

\* a JSON answer with one question whose content is the empty string
EmptyContent ==
  LLMText(TRUE,
          [NoPayload EXCEPT !.questions = Some(<<[type |-> "ASSUMPTION", content |-> ""]>>)],
          <<TextLine("", "{\"questions\": [{\"type\": \"ASSUMPTION\", \"content\": \"\"}]}",
                     FALSE, "none")>>)

\* an answer in plain text: a marked question, questions of 10, 11 and 6
\* characters, a remark
PlainQuestions ==
  LLMText(FALSE, NoPayload,
          <<TextLine("- ", "What follows from this claim?", TRUE, "IMPLICATION"),
            TextLine("", "Too short?", TRUE, "none"),
            TextLine("1. ", "Is it true?", TRUE, "none"),
            TextLine("", "A bit?", TRUE, "none"),
            TextLine("", "Some closing remarks.", FALSE, "none")>>)

\* the empty answer
EmptyText == LLMText(FALSE, NoPayload, <<TextLine("", "", FALSE, "none")>>)

Insight1 == [title |-> "i1", description |-> "d1", category |-> ""]

Topic1 == [title |-> "n1", description |-> "d2", suggestedTags |-> <<"tag">>]

\* JSON answers to ExtractInsights: all four lists, insights only, topics
\* only, and neither insights nor topics
AllLists ==
  LLMText(TRUE, [NoPayload EXCEPT !.insights = <<Insight1>>, !.noteTopics = <<Topic1>>,
                                   !.unansweredQuestions = <<"u1">>, !.noteEnhancements = <<"e1">>],
          <<TextLine("", "{\"insights\": [...], \"noteTopics\": [...]}", FALSE, "none")>>)

OnlyInsights ==
  LLMText(TRUE, [NoPayload EXCEPT !.insights = <<Insight1>>],
          <<TextLine("", "{\"insights\": [...]}", FALSE, "none")>>)

OnlyTopics ==
  LLMText(TRUE, [NoPayload EXCEPT !.noteTopics = <<Topic1>>],
          <<TextLine("", "{\"noteTopics\": [...]}", FALSE, "none")>>)

OnlyExtras ==
  LLMText(TRUE, [NoPayload EXCEPT !.unansweredQuestions = <<"u1">>, !.noteEnhancements = <<"e1">>],
          <<TextLine("", "{\"insights\": [], \"noteTopics\": [], \"unansweredQuestions\": [...]}",
                     FALSE, "none")>>)

LLMContents ==
  {GoodQuestions, EmptyQuestions, EmptyContent, BogusType, PlainQuestions, EmptyText,
   AllLists, OnlyInsights, OnlyTopics, OnlyExtras}

\* what awaiting simpleGenerate can give: an answer, a failure with or
\* without a message, a rejection
LLMOutcomes ==
  {[thrown |-> FALSE, response |-> LLMResponse(TRUE, c, None)] : c \in LLMContents}
    \cup {[thrown |-> FALSE, response |-> LLMResponse(FALSE, EmptyText, Some("rate limit"))],
          [thrown |-> FALSE, response |-> LLMResponse(FALSE, EmptyText, None)],
          [thrown |-> TRUE, response |-> LLMResponse(FALSE, EmptyText, None)]}

\* the note contents GenerateQuestions is called with
NoteContents == {EmptyStr, <<Blank, Blank>>, <<T1, Blank>>}

\* the selected question types
TypeSelections == {<< >>, <<"ASSUMPTION", "EXPANSION">>, <<"ASSUMPTION", "BOGUS">>}

\* the texts typed into a response field
RawResponses == {"", "  ", "r1", " r1 ", "r2 "}

\* ---- the orchestrators as steps ---------------------------------------------
GenerateQuestionsExecute(input, llm) ==
  LET o == GenerateQuestionsOutput(input, llm, nextQ, now)
  IN /\ nextQ + Len(o.result.questions) <= MaxQuestions
     /\ nextQ' = nextQ + Len(o.result.questions)
     /\ out' = o
     /\ err' = "none"
     /\ UNCHANGED <<doc, session, now, saves, pc, pending, race, modal, plugin>>

ContinueDialogueExecute(h, questionTypes, llm) ==
  /\ session[h] # None
  /\ LET o == ContinueDialogueOutput([session |-> session[h][1], questionTypes |-> questionTypes],
                                     llm, nextQ, now)
     IN /\ nextQ + Len(o.result.questions) <= MaxQuestions
        /\ nextQ' = nextQ + Len(o.result.questions)
        /\ out' = o
  /\ err' = "none"
  /\ UNCHANGED <<doc, session, now, saves, pc, pending, race, modal, plugin>>

\* ExtractInsights as it would be if it stored the insights and saved
ExtractInsightsExecuteAndSave(h, llm) ==
  /\ session[h] # None
  /\ out' = ExtractInsightsOutput([session |-> session[h][1]], llm)
  /\ IF out'.thrown \/ out'.result.error # None \/ saves >= MaxSaves
     THEN UNCHANGED <<doc, saves>>
     ELSE /\ doc' = UpdateContentWithSession(doc, session[h][1])
          /\ saves' = saves + 1
  /\ err' = "none"
  /\ UNCHANGED <<session, now, nextQ, pc, pending, race, modal, plugin>>

ExtractInsightsExecute(h, llm) ==
  /\ session[h] # None
  /\ out' = ExtractInsightsOutput([session |-> session[h][1]], llm)
  /\ err' = "none"
  /\ UNCHANGED <<doc, session, now, nextQ, saves, pc, pending, race, modal, plugin>>

\* RecordResponse as it would be if it stored the text as it was typed
RecordResponseExecuteUntrimmed(h, questionId, response, fileExists) ==
  /\ session[h] # None
  /\ \A p \in Savers : pc[p] = "idle"
  /\ IF StringTrim(response) = ""
     THEN /\ out' = Returned("RecordResponse",
                             [NoResult EXCEPT !.session = session[h],
                                              !.error = Some(ErrEmptyResponse)], 0)
          /\ UNCHANGED <<doc, session, now, saves>>
     ELSE IF ~HasQuestion(session[h][1], questionId)
     THEN /\ out' = Returned("RecordResponse",
                             [NoResult EXCEPT !.session = session[h],
                                              !.error = Some(ErrQuestionNotFound(questionId))], 0)
          /\ UNCHANGED <<doc, session, now, saves>>
     ELSE /\ now < MaxTime
          /\ saves < MaxSaves
          /\ now' = now + 1
          /\ saves' = saves + 1
          /\ session' = [session EXCEPT ![h] =
               Some(AddResponse(@[1], questionId, response, now'))]
          /\ doc' = IF fileExists THEN UpdateContentWithSession(doc, session'[h][1]) ELSE doc
          /\ out' = Returned("RecordResponse",
                             [NoResult EXCEPT !.session = session'[h],
                                              !.error = IF fileExists THEN None
                                                        ELSE Some(ErrNoteNotFound)], 0)
  /\ err' = "none"
  /\ UNCHANGED <<nextQ, pc, pending, race, modal, plugin>>

\* RecordResponseUseCase.execute; fileExists tells whether the repository
\* finds the note of the session when it saves
RecordResponseExecute(h, questionId, response, fileExists) ==
  /\ session[h] # None
  /\ \A p \in Savers : pc[p] = "idle"
  /\ IF StringTrim(response) = ""
     THEN /\ out' = Returned("RecordResponse",
                             [NoResult EXCEPT !.session = session[h],
                                              !.error = Some(ErrEmptyResponse)], 0)
          /\ UNCHANGED <<doc, session, now, saves>>
     ELSE IF ~HasQuestion(session[h][1], questionId)
     THEN /\ out' = Returned("RecordResponse",
                             [NoResult EXCEPT !.session = session[h],
                                              !.error = Some(ErrQuestionNotFound(questionId))], 0)
          /\ UNCHANGED <<doc, session, now, saves>>
     ELSE /\ now < MaxTime
          /\ saves < MaxSaves
          /\ now' = now + 1
          /\ saves' = saves + 1
          /\ session' = [session EXCEPT ![h] =
               Some(AddResponse(@[1], questionId, StringTrim(response), now'))]
          /\ doc' = IF fileExists THEN UpdateContentWithSession(doc, session'[h][1]) ELSE doc
          /\ out' = Returned("RecordResponse",
                             [NoResult EXCEPT !.session = session'[h],
                                              !.error = IF fileExists THEN None
                                                        ELSE Some(ErrNoteNotFound)], 0)
  /\ err' = "none"
  /\ UNCHANGED <<nextQ, pc, pending, race, modal, plugin>>

\* ---- the orchestrators driven by one caller ---------------------------------
InitUseCases == InitWith({<<T1, Blank>>})

NextUseCases ==
  \/ Create(1, IntensityDefault)
  \/ DoAddQuestions(1, 1, "EXPANSION", "What else?")
  \/ \E c \in NoteContents, ts \in TypeSelections, llm \in LLMOutcomes :
       GenerateQuestionsExecute([noteContent |-> c, questionTypes |-> ts,
                                 intensity |-> IntensityDefault], llm)
  \/ \E ts \in {None, Some(<<"EXPANSION">>), Some(<<"BOGUS">>)}, llm \in LLMOutcomes :
       ContinueDialogueExecute(1, ts, llm)
  \/ \E llm \in LLMOutcomes : ExtractInsightsExecute(1, llm)
  \/ \E qid \in ResponseTargets, r \in RawResponses, fileExists \in BOOLEAN :
       RecordResponseExecute(1, qid, r, fileExists)

SpecUseCases == InitUseCases /\ [][NextUseCases]_vars

\* ---- the plugin settings and the providers ----------------------------------
\* BaseProvider.isAvailable
IsAvailable(apiKey) == apiKey # ""

\* updateAIService: every registered provider is handed the key of the
\* settings when the settings hold one
UpdateAIService(p) ==
  [p EXCEPT !.providers =
     [t \in ProviderTypes |->
        IF p.settings.apiKeys[t] # "" THEN p.settings.apiKeys[t] ELSE p.providers[t]]]

\* the API key field of the settings tab: onChange stores the text for the
\* selected provider and calls saveSettings
SettingsSetApiKey(value) ==
  /\ plugin' = UpdateAIService([plugin EXCEPT !.settings.apiKeys[plugin.settings.provider] = value])
  /\ plugin' # plugin
  /\ UNCHANGED <<doc, session, now, nextQ, saves, pc, pending, race, err, out, modal>>

\* the provider dropdown of the settings tab
SettingsSetProvider(type) ==
  /\ plugin.settings.provider # type
  /\ plugin' = UpdateAIService([plugin EXCEPT !.settings.provider = type])
  /\ UNCHANGED <<doc, session, now, nextQ, saves, pc, pending, race, err, out, modal>>

\* ---- the dialogue modal -----------------------------------------------------
\* the question types selected in the modal
SelectedTypes == <<"ASSUMPTION", "EXPANSION">>

\* whether the handler of the button gets past its checks to setLoading(true)
ModalStarts(op) ==
  /\ ~modal.isLoading
  /\ op = "GenerateQuestions" \/ session[1] # None
  /\ op # "GenerateQuestions" => Len(GetAnsweredQuestions(session[1][1])) > 0

\* the modal as it would be if continueDialogue did not look at isLoading
ModalTriggerUnguarded(op) ==
  /\ IF ModalStarts(op) \/ (op = "ContinueDialogue" /\ session[1] # None
                            /\ Len(GetAnsweredQuestions(session[1][1])) > 0)
     THEN modal' = [isLoading |-> TRUE, inFlight |-> Append(modal.inFlight, op)]
     ELSE modal' = modal
  /\ modal' # modal
  /\ UNCHANGED <<doc, session, now, nextQ, saves, pc, pending, race, err, out, plugin>>

\* a click on one of the three buttons, up to the await of execute: nothing
\* happens while isLoading is set, without a session or without an answer
ModalTrigger(op) ==
  /\ IF ModalStarts(op)
     THEN modal' = [isLoading |-> TRUE, inFlight |-> Append(modal.inFlight, op)]
     ELSE modal' = modal
  /\ modal' # modal
  /\ UNCHANGED <<doc, session, now, nextQ, saves, pc, pending, race, err, out, plugin>>

\* what the awaited execute gives back to the modal
ModalResult(op, llm) ==
  IF op = "GenerateQuestions"
  THEN GenerateQuestionsOutput([noteContent |-> doc, questionTypes |-> SelectedTypes,
                                intensity |-> IntensityDefault], llm, nextQ, now)
  ELSE IF session[1] = None THEN Thrown(op, 1)
  ELSE IF op = "ContinueDialogue"
  THEN ContinueDialogueOutput([session |-> session[1][1], questionTypes |-> None], llm, nextQ, now)
  ELSE ExtractInsightsOutput([session |-> session[1][1]], llm)

\* the rest of generateQuestions, continueDialogue and extractInsights once
\* execute settles: an error result returns, a rejection is caught, a result
\* goes into the session; finally calls setLoading(false)
ModalFinish(llm) ==
  /\ modal.inFlight # << >>
  /\ LET op == Head(modal.inFlight)
         o == ModalResult(op, llm)
     IN IF o.thrown \/ o.result.error # None
        THEN UNCHANGED <<session, now, nextQ>>
        ELSE /\ now < MaxTime
             /\ nextQ + Len(o.result.questions) <= MaxQuestions
             /\ now' = now + 1
             /\ nextQ' = nextQ + Len(o.result.questions)
             /\ session' = [session EXCEPT ![1] =
                  IF op = "GenerateQuestions"
                  THEN Some(AddQuestions(DialogueSessionCreate(SessionId(1), NotePath, NotePath, doc,
                                                               IntensityDefault, now'),
                                         o.result.questions, now'))
                  ELSE IF op = "ContinueDialogue"
                  THEN Some(AddQuestions(session[1][1], o.result.questions, now'))
                  ELSE Some(SetExtractedInsights(session[1][1],
                              [insights |-> o.result.insights, noteTopics |-> o.result.noteTopics,
                               unansweredQuestions |-> o.result.unansweredQuestions,
                               noteEnhancements |-> o.result.noteEnhancements,
                               extractedAt |-> now'], now'))]
  /\ modal' = [isLoading |-> FALSE, inFlight |-> Tail(modal.inFlight)]
  /\ err' = "none"
  /\ UNCHANGED <<doc, saves, pc, pending, race, out, plugin>>

\* saveResponse: the response fields are gone from the page while loading
ModalSaveResponse(questionId, response) ==
  /\ ~modal.isLoading
  /\ DoAddResponse(1, questionId, response)

\* resetDialogue
ModalReset ==
  /\ session[1] # None
  /\ session' = [session EXCEPT ![1] = None]
  /\ err' = "none"
  /\ UNCHANGED <<doc, now, nextQ, saves, pc, pending, race, out, modal, plugin>>

ModalOps == {"GenerateQuestions", "ContinueDialogue", "ExtractInsights"}

InitModal == InitWith({<<T1, Blank>>})

NextModal ==
  \/ \E op \in ModalOps : ModalTrigger(op)
  \/ \E llm \in LLMOutcomes : ModalFinish(llm)
  \/ \E qid \in ResponseTargets : ModalSaveResponse(qid, "r1")
  \/ ModalReset
  \/ \E value \in ApiKeys : SettingsSetApiKey(value)
  \/ \E type \in ProviderTypes : SettingsSetProvider(type)

SpecModal == InitModal /\ [][NextModal]_vars

\* ---- what the claims speak about ----------------------------------------
\* the number of embedded data blocks of the document that carry session id
BlockCount(c, id) ==
  Cardinality({i \in 1..Len(c) : c[i].d # << >> /\ c[i].d[1].obj.id = id})

\* the number of sessions with this id that getHistory returns
HistoryCount(c, id) ==
  LET hist == GetHistory(c)
  IN Cardinality({i \in 1..Len(hist) : hist[i].id = id})

\* the number of transcripts: '## Socratic Dialogue' headings
TranscriptCount(c) == Cardinality({i \in 1..Len(c) : HasMarker(c[i])})

\* C1: every save of a session leaves exactly one data block and one
\* transcript of that session in the document, and getHistory returns that
\* session exactly once, however often the session was saved before
C1_SaveKeepsOneBlock ==
  [][\A h \in Handles : Save(h) /\ session[h] # None =>
        /\ BlockCount(doc', session[h][1].id) = 1
        /\ HistoryCount(doc', session[h][1].id) = 1
        /\ TranscriptCount(doc') = 1]_vars

\* the response a session holds for a question id, None when it has none
ResponseOf(s, qid) == IF MapHas(s.responses, qid) THEN Some(MapGet(s.responses, qid)) ELSE None

AnsweredIds(s) == {s.responses[i].questionId : i \in 1..Len(s.responses)}

\* same questions in the same order, same response per question id, same
\* intensity, same insights
SameDialogue(a, b) ==
  /\ a.questions = b.questions
  /\ \A qid \in AnsweredIds(a) \cup AnsweredIds(b) : ResponseOf(a, qid) = ResponseOf(b, qid)
  /\ a.intensity = b.intensity
  /\ a.extractedInsights = b.extractedInsights

\* everything the embedded block stores
SamePersisted(a, b) ==
  /\ a.id = b.id
  /\ SameDialogue(a, b)
  /\ a.createdAt = b.createdAt
  /\ a.updatedAt = b.updatedAt

\* ctx is the trimmed content of the document before its dialogue section:
\* before the heading, or before the '---' that only newlines separate from it
IsContentBeforeSection(ctx, c) ==
  LET m == FirstFrom(c, 1, MarkerKinds)
      seps == {k \in 1..(m - 1) : c[k].k = "sep" /\ \A x \in (k + 1)..(m - 1) : IsBlank(c[x])}
  IN /\ m # 0
     /\ \/ ctx = Trim(Before(c, m))
        \/ \E k \in seps : ctx = Trim(Before(c, k))

\* C2: after save(s), getHistory of the note returns a session with the id,
\* questions, responses, intensity, insights, createdAt and updatedAt of s,
\* ahead of any other session with that id; its noteContext is the document's
\* content before the dialogue section
C2_SaveThenGetHistory ==
  [][\A h \in Handles : Save(h) /\ session[h] # None =>
        LET hist == GetHistory(doc')
        IN \E i \in 1..Len(hist) :
             /\ SamePersisted(hist[i], session[h][1])
             /\ \A j \in 1..(i - 1) : hist[j].id # session[h][1].id
             /\ IsContentBeforeSection(hist[i].noteContext, doc')]_vars

\* a saved session with a question, a response and insights is read back
C2_Witness ==
  \E h \in Handles :
    /\ session[h] # None
    /\ saves > 0
    /\ Len(session[h][1].questions) > 0
    /\ Len(session[h][1].responses) > 0
    /\ session[h][1].extractedInsights # None
    /\ session[h][1].updatedAt # session[h][1].createdAt
    /\ \E i \in 1..Len(GetHistory(doc)) : SamePersisted(GetHistory(doc)[i], session[h][1])

\* C3: fromData(toData(s)) has the questions, responses, intensity and
\* insights of s, without options and with excludeNoteContext when the note
\* context is passed as the override
C3_FromDataOfToData ==
  \A h \in Handles : session[h] # None =>
    LET s == session[h][1]
    IN /\ ~FromDataThrows(ToData(s, FALSE))
       /\ SameDialogue(FromData(ToData(s, FALSE), None), s)
       /\ FromData(ToData(s, FALSE), None).noteContext = s.noteContext
       /\ ~FromDataThrows(ToData(s, TRUE))
       /\ SameDialogue(FromData(ToData(s, TRUE), Some(s.noteContext)), s)
       /\ FromData(ToData(s, TRUE), Some(s.noteContext)).noteContext = s.noteContext

\* a session with two questions, an answer, insights and a changed intensity
C3_Witness ==
  \E h \in Handles :
    /\ session[h] # None
    /\ Len(session[h][1].questions) = 2
    /\ Len(session[h][1].responses) > 0
    /\ session[h][1].extractedInsights # None
    /\ session[h][1].intensity # IntensityDefault

\* C4: every questionId key of the response map is the id of a question of
\* the session's question list
C4_ResponsesReferenceQuestions ==
  \A h \in Handles : session[h] # None =>
    \A qid \in AnsweredIds(session[h][1]) : HasQuestion(session[h][1], qid)

\* C5: addResponse with an id that no question of the session has fails with
\* the not-found error and leaves the session (questions, responses,
\* updatedAt) as it was
C5_UnknownIdFails ==
  [][\A h \in Handles, qid \in ResponseTargets, c \in ResponseContents :
        (session[h] # None /\ ~HasQuestion(session[h][1], qid) /\ DoAddResponse(h, qid, c))
        => (err' = "QuestionNotFound" /\ session' = session)]_vars

\* addResponse has just failed on a session that holds a question and an answer
C5_Witness ==
  /\ err = "QuestionNotFound"
  /\ \E h \in Handles :
       /\ session[h] # None
       /\ Len(session[h][1].questions) > 0
       /\ Len(session[h][1].responses) > 0

\* C6: when saves overlap, every interleaving of their reads and writes ends
\* without error and with the document being exactly what the last write
\* wrote
C6_LastWriteWins ==
  ((\A p \in Savers : pc[p] = "idle") /\ race.lastWriter # 0)
    => (doc = pending[race.lastWriter] /\ err = "none")

\* two saves overlapped, both are done, and what the earlier one wrote is gone
C6_Witness ==
  /\ race.overlapped
  /\ \A p \in Savers : pc[p] = "idle"
  /\ race.lastWriter # 0
  /\ doc = pending[race.lastWriter]
  /\ \E o \in Savers : o # race.lastWriter /\ pending[o] # doc
                       /\ \E h \in Handles : session[h] # None
                            /\ BlockCount(pending[o], session[h][1].id) > 0
                            /\ BlockCount(doc, session[h][1].id) = 0

HasBlockLine(c) == \E i \in 1..Len(c) : c[i].k \in {"callout", "comment", "lstart"}

\* C7: delete(sessionId) leaves no session with that id in getHistory, every
\* other session of getHistory as it was, and the dialogue section in place
\* while a block remains
C7_DeleteRemovesOnlyThatSession ==
  [][\A sid \in StoredIds : Delete(sid) =>
        LET before == GetHistory(doc)
            after == GetHistory(doc')
        IN /\ \A j \in 1..Len(after) : after[j].id # sid
           /\ \A i \in 1..Len(before) : before[i].id # sid =>
                \E j \in 1..Len(after) : after[j] = before[i]
           /\ HasBlockLine(doc') => \E m \in 1..Len(doc') : HasMarker(doc'[m])]_vars

\* C8: deleting the id of the one session saved into a document that had no
\* dialogue section leaves the original content trimmed plus one newline,
\* with no data block and no dialogue section
C8_SaveThenDelete ==
  [][\A d0 \in PlainDocs :
        (/\ session[1] # None
         /\ doc = UpdateContentWithSession(d0, session[1][1])
         /\ Delete(session[1][1].id))
        => /\ doc' = Cat(Trim(d0), NL)
           /\ ~HasBlockLine(doc')
           /\ \A i \in 1..Len(doc') : doc'[i].d = << >> /\ ~HasMarker(doc'[i])]_vars

\* a session with questions was saved and its id deleted: the document is a
\* trimmed original again
C8_Witness ==
  /\ saves > 0
  /\ session[1] # None
  /\ Len(session[1][1].questions) > 0
  /\ session[1][1].extractedInsights # None
  /\ ~HasBlockLine(doc)
  /\ TranscriptCount(doc) = 0
  /\ \E d0 \in PlainDocs : Trim(d0) # d0 /\ doc = Cat(Trim(d0), NL)

\* C9: getHistory of the repository is in descending order of createdAt and
\* findByNoteId is a session of greatest createdAt, or none when there is no
\* session
C9_MostRecentFirst ==
  LET hist == GetHistory(doc)
      found == FindByNoteId(doc)
  IN /\ \A i, j \in 1..Len(hist) : i < j => hist[i].createdAt >= hist[j].createdAt
     /\ (found = None) <=> (hist = << >>)
     /\ found # None => \A i \in 1..Len(hist) : found[1].createdAt >= hist[i].createdAt

\* the payloads of one format in document order, each parsed on its own
SessionsOfFormat(c, kind) ==
  LET idx == {i \in 1..Len(c) : c[i].k = kind}
      Nth(n) == CHOOSE i \in idx : Cardinality({m \in idx : m < i}) = n - 1
  IN Flat([n \in 1..Cardinality(idx) |-> ParseBlock(c[Nth(n)].d[1], ExtractNoteContext(c))])

\* C10: getHistory is the sessions of the first of callout, single-line
\* comment, START/END that yields a parseable session; blocks of the later
\* formats are ignored
C10_FormatPriority ==
  LET callout == SessionsOfFormat(doc, "cdata")
      comment == SessionsOfFormat(doc, "comment")
      legacy == SessionsOfFormat(doc, "ljson")
  IN GetHistory(doc) = IF callout # << >> THEN callout
                       ELSE IF comment # << >> THEN comment
                       ELSE legacy

\* a document whose only block is a START/END one: one session, with that
\* block's questions, responses and intensity
C10_Witness ==
  /\ Cardinality({i \in 1..Len(doc) : doc[i].d # << >>}) = 1
  /\ \E i \in 1..Len(doc) :
       /\ doc[i].k = "ljson"
       /\ Len(GetHistory(doc)) = 1
       /\ SameDialogue(GetHistory(doc)[1], FromData(JSONParse(doc[i].d[1]), None))
       /\ Len(GetHistory(doc)[1].questions) > 0
       /\ Len(GetHistory(doc)[1].responses) > 0

\* the positions in the question list of the questions that have a response
AnsweredPositions(s) ==
  {i \in 1..Len(s.questions) :
     \E k \in 1..Len(s.responses) : s.responses[k].questionId = s.questions[i].id}

\* sub lists exactly the questions at the positions pos, in list order
IsSelection(sub, s, pos) ==
  /\ Len(sub) = Cardinality(pos)
  /\ \A n \in 1..Len(sub) :
       \E i \in pos : sub[n] = s.questions[i] /\ Cardinality({m \in pos : m < i}) = n - 1

\* C17: getHistory of a session has one entry per question, in insertion
\* order, with the question's response or none; the answered and the
\* unanswered questions are disjoint, in insertion order, and cover the list
C17_HistoryAndPartition ==
  \A h \in Handles : session[h] # None =>
    LET s == session[h][1]
        hist == SessionGetHistory(s)
        all == 1..Len(s.questions)
    IN /\ Len(hist) = Len(s.questions)
       /\ \A i \in all :
            /\ hist[i].question = s.questions[i]
            /\ IF i \in AnsweredPositions(s)
               THEN \E k \in 1..Len(s.responses) :
                      /\ s.responses[k].questionId = s.questions[i].id
                      /\ hist[i].response = Some(s.responses[k].content)
               ELSE hist[i].response = None
       /\ IsSelection(GetAnsweredQuestions(s), s, AnsweredPositions(s))
       /\ IsSelection(GetUnansweredQuestions(s), s, all \ AnsweredPositions(s))

\* a session with an answered and an unanswered question
C17_Witness ==
  \E h \in Handles :
    /\ session[h] # None
    /\ Len(GetAnsweredQuestions(session[h][1])) = 1
    /\ Len(GetUnansweredQuestions(session[h][1])) = 1
    /\ Len(SessionGetHistory(session[h][1])) = 2

\* C18: getLastExchange is the answered question of greatest position in the
\* question list with its current response content, whatever the order in
\* which the responses were recorded, and none exactly when no question has
\* a response
C18_LastExchangeByPosition ==
  \A h \in Handles : session[h] # None =>
    LET s == session[h][1]
        pos == AnsweredPositions(s)
        last == GetLastExchange(s)
    IN /\ (last = None) <=> (pos = {})
       /\ pos # {} =>
            LET i == CHOOSE x \in pos : \A y \in pos : y <= x
            IN /\ last[1].question = s.questions[i]
               /\ \E k \in 1..Len(s.responses) :
                    /\ s.responses[k].questionId = s.questions[i].id
                    /\ last[1].response = s.responses[k].content

\* both questions are answered, the first one after the second one
C18_Witness ==
  \E h \in Handles :
    /\ session[h] # None
    /\ Len(session[h][1].questions) = 2
    /\ Len(session[h][1].responses) = 2
    /\ session[h][1].responses[2].questionId = session[h][1].questions[1].id
    /\ session[h][1].responses[2].createdAt > session[h][1].responses[1].createdAt
    /\ GetLastExchange(session[h][1])[1].question = session[h][1].questions[2]

\* C16: every data block a save writes has no noteContext field, on a first
\* save and on a replacement; toData has the field exactly when
\* excludeNoteContext is not set
C16_StoredBlockOmitsNoteContext ==
  [][\A h \in Handles : (Save(h) /\ session[h] # None) =>
        LET s == session[h][1]
        IN /\ \E i \in 1..Len(doc') : doc'[i].d # << >> /\ doc'[i].d[1].obj.id = s.id
           /\ \A i \in 1..Len(doc') : doc'[i].d # << >> =>
                (doc'[i].d[1].wf /\ doc'[i].d[1].obj.noteContext = None)
           /\ ToData(s, TRUE).noteContext = None
           /\ ToData(s, FALSE).noteContext = Some(s.noteContext)]_vars

\* a session that carries the text of its note has been saved, and saved
\* again over its own section
C16_Witness ==
  /\ saves >= 2
  /\ session[1] # None
  /\ session[1][1].noteContext # EmptyStr
  /\ BlockCount(doc, session[1][1].id) = 1
  /\ \A i \in 1..Len(doc) : doc[i].d # << >> => doc[i].d[1].obj.noteContext = None

\* the payload parses and names only existing enum values
WellFormed(json) ==
  /\ json.wf
  /\ json.obj.intensity \in IntensityLevelEnum
  /\ \A i \in 1..Len(json.obj.questions) : json.obj.questions[i].type \in QuestionTypeEnum

\* the sessions of the well-formed payloads of one format, in document order
GoodOfFormat(c, kind) ==
  LET idx == {i \in 1..Len(c) : c[i].k = kind /\ WellFormed(c[i].d[1])}
      Nth(n) == CHOOSE i \in idx : Cardinality({m \in idx : m < i}) = n - 1
  IN [n \in 1..Cardinality(idx) |->
        FromData(JSONParse(c[Nth(n)].d[1]), Some(ExtractNoteContext(c)))]

IsCall(op) == out' # out /\ out'.op = op

\* C11: no call of an orchestrator throws or rejects; a failure of the LLM
\* capability, of the prompt construction, of the parser or of the
\* repository comes back in the error field of a result record
C11_ExecuteNeverThrows ==
  out.op # "none" => (~out.thrown /\ (out.llmCalls = 1 /\ out.result.rawResponse = None
                                       => out.result.error # None))

\* the inputs of GenerateQuestions that fail its validation
InvalidGenerateInputs ==
  {[noteContent |-> c, questionTypes |-> ts, intensity |-> IntensityDefault] :
     c \in {EmptyStr, <<Blank, Blank>>}, ts \in TypeSelections}
    \cup {[noteContent |-> <<T1, Blank>>, questionTypes |-> << >>, intensity |-> IntensityDefault]}

\* the record holds an error and no item
IsBareError(o) ==
  /\ ~o.thrown
  /\ o.result.error # None
  /\ o.result.questions = << >>
  /\ o.result.insights = << >> /\ o.result.noteTopics = << >>
  /\ o.result.unansweredQuestions = << >> /\ o.result.noteEnhancements = << >>

\* C12: GenerateQuestions on empty or blank note content or on an empty type
\* list, and ContinueDialogue and ExtractInsights on a session without an
\* answered question, return an error and no item without calling the LLM
\* (for GenerateQuestions: a call that returns anything else had a valid input)
C12_ValidationBeforeLLM ==
  [][/\ (IsCall("GenerateQuestions") /\ ~(IsBareError(out') /\ out'.llmCalls = 0))
          => \A input \in InvalidGenerateInputs, llm \in LLMOutcomes :
               ~GenerateQuestionsExecute(input, llm)
     /\ ((IsCall("ContinueDialogue") \/ IsCall("ExtractInsights"))
         /\ AnsweredPositions(session[1][1]) = {})
          => (IsBareError(out') /\ out'.llmCalls = 0)]_vars

\* ContinueDialogue has refused a session that has a question and no answer
C12_Witness ==
  /\ out.op = "ContinueDialogue"
  /\ session[1] # None
  /\ Len(session[1][1].questions) > 0
  /\ session[1][1].responses = << >>
  /\ IsBareError(out)
  /\ out.result.error = Some(ErrNeedsAnswer)
  /\ out.llmCalls = 0

\* C13: GenerateQuestions, ContinueDialogue and ExtractInsights never save
\* and leave the document as it is; RecordResponse saves once after a
\* successful addResponse and not at all when validation or addResponse fails
C13_OnlyRecordResponseSaves ==
  [][/\ (IsCall("GenerateQuestions") \/ IsCall("ContinueDialogue") \/ IsCall("ExtractInsights"))
          => (doc' = doc /\ saves' = saves)
     /\ IsCall("RecordResponse") =>
          IF session' # session THEN saves' = saves + 1
          ELSE saves' = saves /\ doc' = doc
     /\ (doc' # doc \/ saves' # saves) => IsCall("RecordResponse")]_vars

\* RecordResponse has answered a question and saved; another orchestrator
\* has run since and the document still is the one that save wrote
C13_Witness ==
  /\ saves = 1
  /\ session[1] # None
  /\ Len(session[1][1].responses) = 1
  /\ out.op = "ExtractInsights"
  /\ out.result.error = None
  /\ ~out.thrown
  /\ doc = UpdateContentWithSession(<<T1, Blank>>, session[1][1])

\* the text consists of spaces only
IsBlankText(r) == \A i \in 1..Len(r) : SubSeq(r, i, i) = " "

\* the text is not empty and neither starts nor ends with a space
IsTrimmedNonEmpty(c) ==
  /\ Len(c) > 0
  /\ SubSeq(c, 1, 1) # " "
  /\ SubSeq(c, Len(c), Len(c)) # " "

\* c is r without the spaces around it
IsTrimOf(c, r) == \E a, b \in {"", " ", "  "} : r = a \o c \o b /\ IsTrimmedNonEmpty(c)

\* C14: RecordResponse with a blank response returns an error, leaves the
\* session as it is and does not save; otherwise the content it records
\* for the question is the trimmed input; the returned record carries the
\* session, and every stored content is trimmed and not empty
C14_StoresTrimmedNonEmpty ==
  [][\A qid \in ResponseTargets, r \in RawResponses, fileExists \in BOOLEAN :
        (IsCall("RecordResponse") /\ RecordResponseExecute(1, qid, r, fileExists)) =>
          /\ ~out'.thrown
          /\ out'.result.session = session'[1]
          /\ \A k \in 1..Len(session'[1][1].responses) :
               IsTrimmedNonEmpty(session'[1][1].responses[k].content)
          /\ IF IsBlankText(r)
             THEN /\ out'.result.error # None
                  /\ session' = session
                  /\ saves' = saves /\ doc' = doc
             ELSE qid \in ShownIds(1) =>
                    \E k \in 1..Len(session'[1][1].responses) :
                      /\ session'[1][1].responses[k].questionId = qid
                      /\ IsTrimOf(session'[1][1].responses[k].content, r)]_vars

\* RecordResponse has stored "r2" for the input "r2 " and returned the session
C14_Witness ==
  /\ out.op = "RecordResponse"
  /\ out.result.error = None
  /\ out.result.session = session[1]
  /\ \E k \in 1..Len(session[1][1].responses) : session[1][1].responses[k].content = "r2"

\* C19: with an answered question and an answer from the LLM, ExtractInsights
\* returns an error exactly when the parsed insights and the parsed
\* noteTopics are both empty, whatever the other two lists hold
C19_ErrorIffNoInsightsNoTopics ==
  [][\A llm \in LLMOutcomes :
        (/\ ~llm.thrown /\ llm.response.success
         /\ IsCall("ExtractInsights")
         /\ AnsweredPositions(session[1][1]) # {}
         /\ ExtractInsightsExecute(1, llm)) =>
          LET json == llm.response.content.json
          IN /\ ~out'.thrown
             /\ Len(out'.result.insights) = IF json.wf THEN Len(json.obj.insights) ELSE 0
             /\ out'.result.noteTopics = IF json.wf THEN json.obj.noteTopics ELSE << >>
             /\ (out'.result.error # None)
                  <=> (out'.result.insights = << >> /\ out'.result.noteTopics = << >>)
             /\ out'.result.error # None => out'.result.error = Some(ErrExtractFailed)]_vars

\* ExtractInsights has returned note topics and nothing else, without error
C19_Witness ==
  /\ out.op = "ExtractInsights"
  /\ ~out.thrown
  /\ out.result.error = None
  /\ out.result.insights = << >>
  /\ out.result.noteTopics # << >>
  /\ out.result.unansweredQuestions = << >>
  /\ out.result.noteEnhancements = << >>

\* C20: a result of GenerateQuestions or ContinueDialogue has no error
\* exactly when it has questions; an answer from which no question is
\* recovered gives the failed-to-generate error with the raw answer, a
\* failed LLM call gives the LLM's error
C20_ErrorIffNoQuestions ==
  [][/\ ((IsCall("GenerateQuestions") \/ IsCall("ContinueDialogue")) /\ ~out'.thrown)
          => ((out'.result.error = None) <=> (out'.result.questions # << >>))
     /\ \A input \in {[noteContent |-> <<T1, Blank>>, questionTypes |-> <<"ASSUMPTION", "EXPANSION">>,
                       intensity |-> IntensityDefault]}, llm \in LLMOutcomes :
          (~llm.thrown /\ IsCall("GenerateQuestions") /\ GenerateQuestionsExecute(input, llm)) =>
            IF llm.response.success
            THEN out'.result.questions = << >> =>
                   (/\ out'.result.error = Some(ErrGenerateFailed)
                    /\ out'.result.rawResponse = Some(llm.response.content))
            ELSE /\ out'.result.error \notin {None, Some(ErrGenerateFailed)}
                 /\ llm.response.error # None => out'.result.error = llm.response.error
     /\ \A ts \in {None, Some(<<"EXPANSION">>)}, llm \in LLMOutcomes :
          (/\ ~llm.thrown /\ IsCall("ContinueDialogue")
           /\ AnsweredPositions(session[1][1]) # {}
           /\ ContinueDialogueExecute(1, ts, llm)) =>
            IF llm.response.success
            THEN out'.result.questions = << >> =>
                   (/\ out'.result.error = Some(ErrContinueFailed)
                    /\ out'.result.rawResponse = Some(llm.response.content))
            ELSE /\ out'.result.error \notin {None, Some(ErrContinueFailed)}
                 /\ llm.response.error # None => out'.result.error = llm.response.error]_vars

\* the LLM answered with an empty questions array: GenerateQuestions returns
\* the failed-to-generate error and the raw answer
C20_Witness ==
  /\ out.op = "GenerateQuestions"
  /\ ~out.thrown
  /\ out.llmCalls = 1
  /\ out.result.questions = << >>
  /\ out.result.error = Some(ErrGenerateFailed)
  /\ out.result.rawResponse = Some(EmptyQuestions)

\* C21: addResponse for a question that already has a response overwrites
\* it: the map then has one entry for that id, holding the new content, as
\* many entries as before, and the entries of the other questions as they were
C21_AddResponseOverwrites ==
  [][\A qid \in ResponseTargets, c \in ResponseContents :
        (/\ session[1] # None
         /\ MapHas(session[1][1].responses, qid)
         /\ HasQuestion(session[1][1], qid)
         /\ DoAddResponse(1, qid, c)) =>
          LET old == session[1][1].responses
              new == session'[1][1].responses
          IN /\ Len(new) = Len(old)
             /\ Cardinality({k \in 1..Len(new) : new[k].questionId = qid}) = 1
             /\ \A k \in 1..Len(new) :
                  IF old[k].questionId = qid
                  THEN new[k].questionId = qid /\ new[k].content = c
                  ELSE new[k] = old[k]]_vars

\* the restored answer of k1 has been replaced after q1 was answered: k1's
\* entry holds the new content and q1's entry is the one written before
C21_Witness ==
  /\ session[1] # None
  /\ session[1][1].id = "s8"
  /\ Len(session[1][1].responses) = 2
  /\ session[1][1].responses[1].questionId = "k1"
  /\ session[1][1].responses[1].content = "r2"
  /\ session[1][1].responses[2].questionId = "q1"
  /\ session[1][1].responses[1].createdAt > session[1][1].responses[2].createdAt

\* an input GenerateQuestions accepts
ValidGenerateInput ==
  [noteContent |-> <<T1, Blank>>, questionTypes |-> <<"ASSUMPTION", "EXPANSION">>,
   intensity |-> IntensityDefault]

\* the LLM answered, and the JSON of its text has a questions array whose
\* entries all have a type of the enumeration
HasValidEntries(llm) ==
  /\ ~llm.thrown /\ llm.response.success
  /\ llm.response.content.json.wf
  /\ llm.response.content.json.obj.questions # None
  /\ \A i \in 1..Len(llm.response.content.json.obj.questions[1]) :
       llm.response.content.json.obj.questions[1][i].type \in QuestionTypeEnum

\* the questions are the entries, one for one and in their order
MatchesEntries(questions, entries) ==
  /\ Len(questions) = Len(entries)
  /\ \A i \in 1..Len(entries) :
       questions[i].type = entries[i].type /\ questions[i].content = entries[i].content

\* C22: a text with well-formed JSON holding N question entries of valid
\* types is parsed, by GenerateQuestions and by ContinueDialogue, into N
\* questions in the order of the entries, each with its entry's type and content
C22_ParsesEveryEntryInOrder ==
  [][\A llm \in LLMOutcomes :
        /\ (HasValidEntries(llm) /\ IsCall("GenerateQuestions")
            /\ GenerateQuestionsExecute(ValidGenerateInput, llm))
             => MatchesEntries(out'.result.questions, llm.response.content.json.obj.questions[1])
        /\ (HasValidEntries(llm) /\ IsCall("ContinueDialogue")
            /\ AnsweredPositions(session[1][1]) # {}
            /\ ContinueDialogueExecute(1, None, llm))
             => MatchesEntries(out'.result.questions, llm.response.content.json.obj.questions[1])]_vars

\* GenerateQuestions has returned the two questions of the JSON answer
C22_Witness ==
  /\ out.op = "GenerateQuestions"
  /\ ~out.thrown
  /\ out.result.error = None
  /\ Len(out.result.questions) = 2
  /\ out.result.questions[1].type = "PERSPECTIVE"
  /\ out.result.questions[1].content = "Who disagrees?"
  /\ out.result.questions[2].type = "IMPLICATION"
  /\ out.result.questions[2].content = "What follows?"

\* C23: every question GenerateQuestions or ContinueDialogue returns, from
\* the JSON path or from the line scan, has non-empty content
C23_QuestionsHaveContent ==
  out.op \in {"GenerateQuestions", "ContinueDialogue"} =>
    \A i \in 1..Len(out.result.questions) : out.result.questions[i].content # ""

\* the candidate lines of the line scan: not empty and holding a '?'
Candidates(text) == SelectSeq(text.lines, LAMBDA l : (l.prefix \o l.body) # "" /\ l.q)

\* C24: in the line scan a candidate is dropped exactly when its cleaned
\* content is shorter than 10 characters: the questions returned are the
\* candidates of 10 or more characters, in their order
C24_KeepsTenOrMore ==
  [][\A llm \in LLMOutcomes :
        (/\ ~llm.thrown /\ llm.response.success
         /\ ~llm.response.content.json.wf
         /\ IsCall("GenerateQuestions")
         /\ GenerateQuestionsExecute(ValidGenerateInput, llm)) =>
          LET kept == SelectSeq(Candidates(llm.response.content), LAMBDA l : Len(l.body) >= 10)
          IN /\ Len(out'.result.questions) = Len(kept)
             /\ \A i \in 1..Len(kept) : out'.result.questions[i].content = kept[i].body]_vars

\* C25: whenever RecordResponse returns an error (blank response, unknown
\* question, failed save) the session has the response map and the
\* updatedAt it had before the call
C25_ErrorLeavesSessionAsItWas ==
  [][(IsCall("RecordResponse") /\ out'.result.error # None) =>
        /\ session'[1][1].responses = session[1][1].responses
        /\ session'[1][1].updatedAt = session[1][1].updatedAt]_vars

\* C26: the content save computes from a document that holds the block of
\* a session with another id still yields that session, and the saved one,
\* in getHistory
C26_SaveKeepsOtherSessions ==
  [][\A p \in Savers, h \in Handles :
        SaveRead(p, h) =>
          \A i \in 1..Len(GetHistory(doc)) :
            GetHistory(doc)[i].id # session[h][1].id =>
              /\ HistoryCount(pending'[p], GetHistory(doc)[i].id) > 0
              /\ HistoryCount(pending'[p], session[h][1].id) > 0]_vars

\* C28: the modal awaits at most one execute call at a time; a click on
\* one of the three buttons while isLoading is set changes nothing; when the
\* awaited call settles, with a result, an error or a rejection, isLoading
\* is cleared
C28_OneOperationInFlight ==
  [][/\ Len(modal'.inFlight) <= 1
     /\ modal'.isLoading <=> (modal'.inFlight # << >>)
     /\ modal.isLoading => (modal' = modal \/ Len(modal'.inFlight) < Len(modal.inFlight))
     /\ Len(modal'.inFlight) < Len(modal.inFlight) => ~modal'.isLoading]_vars

\* a call is awaited while the session was reset under it
C28_Witness ==
  /\ modal.isLoading
  /\ modal.inFlight = <<"ExtractInsights">>
  /\ session[1] = None
  /\ now > 0

\* C29: after any sequence of settings updates, each provider is available
\* exactly when the settings hold a non-empty API key for it
C29_AvailableIffKeyInSettings ==
  \A t \in ProviderTypes :
    IsAvailable(plugin.providers[t]) <=> (plugin.settings.apiKeys[t] # "")

\* C30: every mutation of a session keeps the questions it had, at their
\* positions and with their content, in front of the ones it appends, and
\* keeps every answered question answered
C30_HistoryIsMonotonic ==
  [][(session[1] # None /\ session'[1] # None) =>
        LET old == session[1][1]
            new == session'[1][1]
        IN /\ Len(new.questions) >= Len(old.questions)
           /\ \A i \in 1..Len(old.questions) : new.questions[i] = old.questions[i]
           /\ \A i \in 1..Len(old.questions) :
                MapHas(old.responses, old.questions[i].id) => MapHas(new.responses, old.questions[i].id)
           /\ Len(GetAnsweredQuestions(new)) >= Len(GetAnsweredQuestions(old))]_vars

\* a question was appended after the first question had been answered
C30_Witness ==
  /\ session[1] # None
  /\ Len(session[1][1].questions) = 2
  /\ MapHas(session[1][1].responses, session[1][1].questions[1].id)
  /\ ~MapHas(session[1][1].responses, session[1][1].questions[2].id)
  /\ MapGet(session[1][1].responses, session[1][1].questions[1].id).createdAt
       < session[1][1].questions[2].createdAt

\* the lines of the note's own text that lie outside the dialogue section:
\* before its heading, or from the next '## ' heading on
OutsideSection(c) ==
  LET m == FirstFrom(c, 1, MarkerKinds)
      h == IF m = 0 THEN 0 ELSE FirstFrom(c, m + 1, H2Kinds)
  IN {i \in 1..Len(c) : /\ c[i].k \in {"text", "h2"}
                        /\ m = 0 \/ i < m \/ (h # 0 /\ i >= h)}

\* C27: delete leaves the content before the dialogue section and the
\* content after it, a later '## ' heading and its text, in the document,
\* also when it deletes the last session
C27_DeleteKeepsTheRest ==
  [][\A sid \in StoredIds : Delete(sid) =>
        \A i \in OutsideSection(doc) : \E j \in 1..Len(doc') : doc'[j] = doc[i]]_vars

====
